---- MODULE Spec2Model ----
(***************************************************************************)
(* Model of the recording engine of backend/tools.py (per-session contact  *)
(* recording, process-wide unknown-question registry) and of the part of   *)
(* Me.chat (backend/chat.py) that selects the session and dispatches tool  *)
(* calls.                                                                  *)
(*                                                                         *)
(* Strings are sequences of one-character strings, so that str.strip,      *)
(* str.lower and the two re.sub calls of _normalize are computed.          *)
(*                                                                         *)
(* Spec          whole-handler actions of the contact engine, one caller   *)
(* SpecQ         whole-handler actions of the question registry, one       *)
(*               caller                                                    *)
(* SpecConc      two threads running Me.chat, one step per source line     *)
(*               that reads or writes shared state                         *)
(* SpecChat      one caller running chat turns through Me.chat and the     *)
(*               HTTP endpoint: model answers, tool dispatch, failures     *)
(* SpecChatFail  SpecChat with requests.post raising inside push()         *)
(* SpecSim       one caller recording questions and asking                 *)
(*               check_question_similarity, with a classifier whose        *)
(*               answers may be similar, different or a failure            *)
(*                                                                         *)
(* Except in SpecChatFail, push() is modelled as returning normally:       *)
(* requests.post either delivers or gets an HTTP error that the code does  *)
(* not look at.  name and notes are carried verbatim into the message text *)
(* and select no branch; the message keeps the raw email only.             *)
(***************************************************************************)
EXTENDS Integers, Sequences, FiniteSets, TLC

VARIABLES
    session_states,          \* tools.py:43  dict session id -> _SessionState
    current_session_id,      \* tools.py:44  module global
    recorded_questions,      \* tools.py:85  set of normalized keys
    recorded_questions_raw,  \* tools.py:11  list of raw questions
    pushes,                  \* messages handed to push(), in order
    result,                  \* value returned by the last tool function
    calls,                   \* history of completed tool calls (observation only)
    pc,                      \* SpecConc: position of each thread;
                             \* SpecChat: position of the turn
    frame                    \* SpecConc: locals of each thread;
                             \* SpecChat: locals of the turn

vars == <<session_states, current_session_id, recorded_questions,
          recorded_questions_raw, pushes, result, calls, pc, frame>>

(***************************************************************************)
(* Bounds and input sets                                                   *)
(***************************************************************************)
MaxCalls == 4
MaxRounds == 1

SessionIds == {"", "s1"}

Emails ==
    { <<"a", "@", "b">>,
      <<" ", "A", "@", "B", " ">>,
      <<"c", "@", "b">>,
      <<"d", "@", "b">> }

Threads == {"t1", "t2"}

ConcEmails == { <<"a", "@", "b">>, <<"c", "@", "b">> }

ConcQuestions == { <<"A", "b", "?">>, <<"a", "b">> }

Questions ==
    { <<"A", "b", "?">>,
      <<"a", "b">>,
      <<"a", "_", "b">>,
      <<"a", " ", " ", "b">>,
      <<" ", "a", " ", "B", "!", " ">>,
      <<"?">> }

(***************************************************************************)
(* Characters and the string functions the code uses                       *)
(***************************************************************************)
Whitespace == {" "}
WordChars == {"a", "b", "c", "d", "A", "B", "_", "4", "2"}

\* str.lower on one character
LowerChar(c) == CASE c = "A" -> "a" [] c = "B" -> "b" [] OTHER -> c

\* str.lower
lower(s) == [i \in 1..Len(s) |-> LowerChar(s[i])]

RECURSIVE lstrip(_)
lstrip(s) == IF s # <<>> /\ Head(s) \in Whitespace THEN lstrip(Tail(s)) ELSE s

RECURSIVE rstrip(_)
rstrip(s) ==
    IF s # <<>> /\ s[Len(s)] \in Whitespace
    THEN rstrip(SubSeq(s, 1, Len(s) - 1))
    ELSE s

\* str.strip
strip(s) == rstrip(lstrip(s))

\* re.sub(r"[^\w\s]", "", s)
IsWordOrSpace(c) == c \in WordChars \/ c \in Whitespace
sub_nonword(s) == SelectSeq(s, IsWordOrSpace)

\* re.sub(r"\s+", " ", s): every maximal run of whitespace becomes one space
RECURSIVE sub_spaces(_)
sub_spaces(s) ==
    IF s = <<>> THEN <<>>
    ELSE IF Head(s) \in Whitespace
         THEN <<" ">> \o sub_spaces(lstrip(s))
         ELSE <<Head(s)>> \o sub_spaces(Tail(s))

\* tools.py:19-20
normalize_nolower(text) == strip(sub_spaces(sub_nonword(text)))
normalize(text) == strip(sub_spaces(sub_nonword(lower(text))))

\* tools.py:58  key = email.strip().lower()
email_key_nolower(email) == strip(email)
email_key(email) == lower(strip(email))

(***************************************************************************)
(* Notification channel                                                    *)
(***************************************************************************)
\* tools.py:79  f"Recording '{name}' with email '{email}' and notes '{notes}'"
ContactMessage(email) == [kind |-> "contact", email |-> email]

\* tools.py:133  f"Recording '{question}' asked that I couldn't answer"
QuestionMessage(question) == [kind |-> "question", question |-> question]

\* tools.py:23-32  push(text): one POST, the response is not looked at
push(sent, text) == Append(sent, text)

(***************************************************************************)
(* Contact recording: tools.py:35-82                                       *)
(***************************************************************************)
\* tools.py:35-40  _SessionState()
SessionState0 ==
    [notification_sent |-> FALSE, recorded_email |-> <<>>,
     email_change_count |-> 0, override_used |-> FALSE]

\* tools.py:59  the key under which record_user_details looks up its state
session_key_shared == ""
session_key == current_session_id

\* tools.py:59  dict.setdefault(sid, _SessionState())
setdefault(states, sid) ==
    IF sid \in DOMAIN states THEN states
    ELSE [s \in DOMAIN states \cup {sid} |->
            IF s = sid THEN SessionState0 ELSE states[s]]

\* tools.py:62-64  override asked for and already consumed
override_rejected_never(state, override) == FALSE
override_rejected(state, override) == override /\ state.override_used

\* tools.py:62,65-66  an accepted override reopens the notification
override_reset_when_recorded(state, override) ==
    IF override /\ state.notification_sent
    THEN [state EXCEPT !.notification_sent = FALSE, !.override_used = TRUE]
    ELSE state
override_reset_clears_count(state, override) ==
    IF override
    THEN [state EXCEPT !.notification_sent = FALSE, !.override_used = TRUE,
                       !.email_change_count = 0]
    ELSE state
override_reset_keeps_sent(state, override) ==
    IF override THEN [state EXCEPT !.override_used = TRUE] ELSE state
override_reset(state, override) ==
    IF override
    THEN [state EXCEPT !.notification_sent = FALSE, !.override_used = TRUE]
    ELSE state

\* tools.py:69-76  rules 1-3, taken when notification_sent is set
dedup_renotify(state, key, email) ==
    IF key = state.recorded_email
    THEN [state |-> state, recorded |-> "already_recorded", sent |-> <<>>]
    ELSE LET counted == [state EXCEPT !.email_change_count = @ + 1]
         IN  IF counted.email_change_count > 1
             THEN [state |-> counted, recorded |-> "suspicious", sent |-> <<>>]
             ELSE [state |-> [counted EXCEPT !.recorded_email = key],
                   recorded |-> "corrected",
                   sent |-> <<ContactMessage(email)>>]
dedup_late_suspicious(state, key, email) ==
    IF key = state.recorded_email
    THEN [state |-> state, recorded |-> "already_recorded", sent |-> <<>>]
    ELSE LET counted == [state EXCEPT !.email_change_count = @ + 1]
         IN  IF counted.email_change_count > 2
             THEN [state |-> counted, recorded |-> "suspicious", sent |-> <<>>]
             ELSE [state |-> [counted EXCEPT !.recorded_email = key],
                   recorded |-> "corrected", sent |-> <<>>]
dedup_forgiving(state, key, email) ==
    IF key = state.recorded_email
    THEN [state |-> state, recorded |-> "already_recorded", sent |-> <<>>]
    ELSE LET counted == [state EXCEPT !.email_change_count = @ + 1]
         IN  IF counted.email_change_count > 1
             THEN [state |-> [counted EXCEPT !.email_change_count = 0],
                   recorded |-> "suspicious", sent |-> <<>>]
             ELSE [state |-> [counted EXCEPT !.recorded_email = key],
                   recorded |-> "corrected", sent |-> <<>>]
dedup_refusal_records(state, key, email) ==
    IF key = state.recorded_email
    THEN [state |-> state, recorded |-> "already_recorded", sent |-> <<>>]
    ELSE LET counted == [state EXCEPT !.email_change_count = @ + 1,
                                      !.recorded_email = key]
         IN  IF counted.email_change_count > 1
             THEN [state |-> counted, recorded |-> "suspicious", sent |-> <<>>]
             ELSE [state |-> counted, recorded |-> "corrected", sent |-> <<>>]
dedup_uncounted_refusal(state, key, email) ==
    IF key = state.recorded_email
    THEN [state |-> state, recorded |-> "already_recorded", sent |-> <<>>]
    ELSE LET counted == [state EXCEPT !.email_change_count = @ + 1]
         IN  IF counted.email_change_count > 1
             THEN [state |-> state, recorded |-> "suspicious", sent |-> <<>>]
             ELSE [state |-> [counted EXCEPT !.recorded_email = key],
                   recorded |-> "corrected", sent |-> <<>>]
dedup_early_suspicious(state, key, email) ==
    IF key = state.recorded_email
    THEN [state |-> state, recorded |-> "already_recorded", sent |-> <<>>]
    ELSE LET counted == [state EXCEPT !.email_change_count = @ + 1]
         IN  IF counted.email_change_count > 0
             THEN [state |-> counted, recorded |-> "suspicious", sent |-> <<>>]
             ELSE [state |-> [counted EXCEPT !.recorded_email = key],
                   recorded |-> "corrected", sent |-> <<>>]
dedup(state, key, email) ==
    IF key = state.recorded_email
    THEN [state |-> state, recorded |-> "already_recorded", sent |-> <<>>]
    ELSE LET counted == [state EXCEPT !.email_change_count = @ + 1]
         IN  IF counted.email_change_count > 1
             THEN [state |-> counted, recorded |-> "suspicious", sent |-> <<>>]
             ELSE [state |-> [counted EXCEPT !.recorded_email = key],
                   recorded |-> "corrected", sent |-> <<>>]

\* tools.py:78-82  first notification of the cycle
first_notification_once(state, key, email) ==
    [state |-> [state EXCEPT !.notification_sent = TRUE, !.recorded_email = key],
     recorded |-> "ok",
     sent |-> IF state.override_used THEN <<>> ELSE <<ContactMessage(email)>>]
first_notification(state, key, email) ==
    [state |-> [state EXCEPT !.notification_sent = TRUE, !.recorded_email = key],
     recorded |-> "ok",
     sent |-> <<ContactMessage(email)>>]

\* tools.py:58,61-82  the body of record_user_details on its resolved state
record_user_details_on(state, email, override) ==
    LET key == email_key(email)
    IN  IF override_rejected(state, override)
        THEN [state |-> state, recorded |-> "already_overridden", sent |-> <<>>]
        ELSE LET st == override_reset(state, override)
             IN  IF st.notification_sent
                 THEN dedup(st, key, email)
                 ELSE first_notification(st, key, email)

(***************************************************************************)
(* Whole-handler actions of the contact engine                             *)
(***************************************************************************)
Init ==
    /\ session_states = [s \in {} |-> SessionState0]
    /\ current_session_id = ""
    /\ recorded_questions = {}
    /\ recorded_questions_raw = <<>>
    /\ pushes = <<>>
    /\ result = [recorded |-> "none"]
    /\ calls = <<>>
    /\ pc = <<>>
    /\ frame = <<>>

\* tools.py:47-49
set_session_id(session_id) ==
    /\ current_session_id # session_id
    /\ current_session_id' = session_id
    /\ UNCHANGED <<session_states, recorded_questions, recorded_questions_raw,
                   pushes, result, calls, pc, frame>>

\* tools.py:52-82
record_user_details(email, override) ==
    /\ Len(calls) < MaxCalls
    /\ LET sid    == session_key
           states == setdefault(session_states, sid)
           out    == record_user_details_on(states[sid], email, override)
       IN  /\ session_states' = [states EXCEPT ![sid] = out.state]
           /\ pushes' = pushes \o out.sent
           /\ result' = [recorded |-> out.recorded]
           /\ calls' = Append(calls,
                 [op |-> "record_user_details", sid |-> current_session_id,
                  email |-> email,
                  override |-> override, recorded |-> out.recorded,
                  npush |-> Len(out.sent),
                  pre |-> states[sid], post |-> out.state])
    /\ UNCHANGED <<current_session_id, recorded_questions,
                   recorded_questions_raw, pc, frame>>

Next ==
    \/ \E session_id \in SessionIds : set_session_id(session_id)
    \/ \E email \in Emails, override \in BOOLEAN :
          record_user_details(email, override)

Spec == Init /\ [][Next]_vars

(***************************************************************************)
(* Unknown-question registry: tools.py:85,127-134                          *)
(***************************************************************************)
\* list(a_set): the elements once each, in an order the caller cannot choose
Listings(S) ==
    {f \in [1..Cardinality(S) -> S] : \A i, j \in DOMAIN f : i # j => f[i] # f[j]}

\* tools.py:129  key in _recorded_questions
is_recorded_never(keys, key) == FALSE
is_recorded(keys, key) == key \in keys

\* tools.py:130,134  list(_recorded_questions): the value handed back in
\* "recorded_questions" is a listing of the key set
returned_questions_raw(keys, raw) == {raw}
returned_questions(keys, raw) == Listings(keys)

\* tools.py:128-134  the body of record_unknown_question on the registry
record_unknown_question_on_keeping_raw(keys, raw, question) ==
    LET key == normalize(question)
    IN  IF is_recorded(keys, key)
        THEN [keys |-> keys, raw |-> Append(raw, question),
              recorded |-> "already_recorded", sent |-> <<>>]
        ELSE [keys |-> keys \cup {key}, raw |-> Append(raw, question),
              recorded |-> "ok", sent |-> <<QuestionMessage(question)>>]
record_unknown_question_on_forgetting(keys, raw, question) ==
    LET key == normalize(question)
    IN  IF is_recorded(keys, key)
        THEN [keys |-> keys \ {key}, raw |-> SubSeq(raw, 1, Len(raw) - 1),
              recorded |-> "already_recorded", sent |-> <<>>]
        ELSE [keys |-> keys \cup {key}, raw |-> Append(raw, question),
              recorded |-> "ok", sent |-> <<QuestionMessage(question)>>]
record_unknown_question_on(keys, raw, question) ==
    LET key == normalize(question)
    IN  IF is_recorded(keys, key)
        THEN [keys |-> keys, raw |-> raw,
              recorded |-> "already_recorded", sent |-> <<>>]
        ELSE [keys |-> keys \cup {key}, raw |-> Append(raw, question),
              recorded |-> "ok", sent |-> <<QuestionMessage(question)>>]

\* tools.py:127-134
record_unknown_question(question) ==
    /\ Len(calls) < MaxCalls
    /\ LET pre == [keys |-> recorded_questions, raw |-> recorded_questions_raw]
           out == record_unknown_question_on(recorded_questions,
                                             recorded_questions_raw, question)
       IN  /\ recorded_questions' = out.keys
           /\ recorded_questions_raw' = out.raw
           /\ pushes' = IF out.sent = <<>> THEN pushes
                        ELSE push(pushes, out.sent[1])
           /\ \E listing \in returned_questions(out.keys, out.raw) :
                  result' = [recorded |-> out.recorded,
                             recorded_questions |-> listing]
           /\ calls' = Append(calls,
                  [op |-> "record_unknown_question", question |-> question,
                   recorded |-> out.recorded, npush |-> Len(out.sent),
                   pre |-> pre,
                   post |-> [keys |-> out.keys, raw |-> out.raw]])
    /\ UNCHANGED <<session_states, current_session_id, pc, frame>>

NextQ == \E question \in Questions : record_unknown_question(question)

SpecQ == Init /\ [][NextQ]_vars

(***************************************************************************)
(* Two threads in Me.chat: chat.py:201-247 over tools.py:52-82,127-134     *)
(* One action per source line that reads or writes shared state; the       *)
(* augmented assignment of tools.py:72 is a load and a store.              *)
(***************************************************************************)
Frame0 ==
    [session_id |-> "", rounds |-> 0, email |-> <<>>, override |-> FALSE,
     question |-> <<>>, key |-> <<>>, state |-> "", count |-> 0, npush |-> 0]

InitConc ==
    /\ session_states = [s \in {} |-> SessionState0]
    /\ current_session_id = ""
    /\ recorded_questions = {}
    /\ recorded_questions_raw = <<>>
    /\ pushes = <<>>
    /\ result = [recorded |-> "none"]
    /\ calls = <<>>
    /\ pc = [t \in Threads |-> "idle"]
    /\ frame = [t \in Threads |-> Frame0]

Goto(t, label) == pc' = [pc EXCEPT ![t] = label]

\* chat.py:213-217,243-244  the tool's value goes into the messages; next invocation
Return(t, entry) ==
    /\ calls' = Append(calls, entry)
    /\ pc' = [pc EXCEPT ![t] = "invoke"]
    /\ frame' = [frame EXCEPT ![t] =
                    [Frame0 EXCEPT !.session_id = frame[t].session_id,
                                   !.rounds = frame[t].rounds + 1]]

ContactEntry(t, recorded) ==
    [op |-> "record_user_details", thread |-> t, sid |-> frame[t].session_id,
     state |-> frame[t].state, email |-> frame[t].email,
     override |-> frame[t].override, recorded |-> recorded,
     npush |-> frame[t].npush]

QuestionEntry(t, recorded) ==
    [op |-> "record_unknown_question", thread |-> t,
     question |-> frame[t].question, recorded |-> recorded,
     npush |-> frame[t].npush]

\* chat.py:220-222  set_session_id(session_id), messages assembled
chat_begin(t, session_id) ==
    /\ pc[t] = "idle"
    /\ current_session_id' = session_id
    /\ frame' = [frame EXCEPT ![t].session_id = session_id]
    /\ Goto(t, "invoke")
    /\ UNCHANGED <<session_states, recorded_questions, recorded_questions_raw,
                   pushes, result, calls>>

\* chat.py:226-242, 201-212  the model asks for record_user_details
invoke_record_user_details(t, email, override) ==
    /\ pc[t] = "invoke"
    /\ frame[t].rounds < MaxRounds
    /\ frame' = [frame EXCEPT ![t].email = email, ![t].override = override]
    /\ Goto(t, "rud59")
    /\ UNCHANGED <<session_states, current_session_id, recorded_questions,
                   recorded_questions_raw, pushes, result, calls>>

\* chat.py:226-242, 201-212  the model asks for record_unknown_question
invoke_record_unknown_question(t, question) ==
    /\ pc[t] = "invoke"
    /\ frame[t].rounds < MaxRounds
    /\ frame' = [frame EXCEPT ![t].question = question]
    /\ Goto(t, "ruq128")
    /\ UNCHANGED <<session_states, current_session_id, recorded_questions,
                   recorded_questions_raw, pushes, result, calls>>

\* chat.py:226-247  the model answers without a tool call
invoke_final(t) ==
    /\ pc[t] = "invoke"
    /\ Goto(t, "done")
    /\ UNCHANGED <<session_states, current_session_id, recorded_questions,
                   recorded_questions_raw, pushes, result, calls, frame>>

\* tools.py:58-59
rud59(t) ==
    /\ pc[t] = "rud59"
    /\ session_states' = setdefault(session_states, current_session_id)
    /\ frame' = [frame EXCEPT ![t].key = email_key(frame[t].email),
                              ![t].state = current_session_id]
    /\ Goto(t, IF frame[t].override THEN "rud63" ELSE "rud69")
    /\ UNCHANGED <<current_session_id, recorded_questions,
                   recorded_questions_raw, pushes, result, calls>>

\* tools.py:63-64
rud63(t) ==
    /\ pc[t] = "rud63"
    /\ IF session_states[frame[t].state].override_used
       THEN Return(t, ContactEntry(t, "already_overridden"))
       ELSE Goto(t, "rud65") /\ UNCHANGED <<frame, calls>>
    /\ UNCHANGED <<session_states, current_session_id, recorded_questions,
                   recorded_questions_raw, pushes, result>>

\* tools.py:65
rud65(t) ==
    /\ pc[t] = "rud65"
    /\ session_states' =
           [session_states EXCEPT ![frame[t].state].notification_sent = FALSE]
    /\ Goto(t, "rud66")
    /\ UNCHANGED <<current_session_id, recorded_questions,
                   recorded_questions_raw, pushes, result, calls, frame>>

\* tools.py:66
rud66(t) ==
    /\ pc[t] = "rud66"
    /\ session_states' =
           [session_states EXCEPT ![frame[t].state].override_used = TRUE]
    /\ Goto(t, "rud69")
    /\ UNCHANGED <<current_session_id, recorded_questions,
                   recorded_questions_raw, pushes, result, calls, frame>>

\* tools.py:69
rud69(t) ==
    /\ pc[t] = "rud69"
    /\ Goto(t, IF session_states[frame[t].state].notification_sent
               THEN "rud70" ELSE "rud79")
    /\ UNCHANGED <<session_states, current_session_id, recorded_questions,
                   recorded_questions_raw, pushes, result, calls, frame>>

\* tools.py:70-71
rud70(t) ==
    /\ pc[t] = "rud70"
    /\ IF frame[t].key = session_states[frame[t].state].recorded_email
       THEN Return(t, ContactEntry(t, "already_recorded"))
       ELSE Goto(t, "rud72") /\ UNCHANGED <<frame, calls>>
    /\ UNCHANGED <<session_states, current_session_id, recorded_questions,
                   recorded_questions_raw, pushes, result>>

\* tools.py:72  state.email_change_count += 1, the load
rud72_load(t) ==
    /\ pc[t] = "rud72"
    /\ frame' = [frame EXCEPT
                    ![t].count = session_states[frame[t].state].email_change_count]
    /\ Goto(t, "rud72s")
    /\ UNCHANGED <<session_states, current_session_id, recorded_questions,
                   recorded_questions_raw, pushes, result, calls>>

\* tools.py:72  state.email_change_count += 1, the store
rud72_store(t) ==
    /\ pc[t] = "rud72s"
    /\ session_states' =
           [session_states EXCEPT
               ![frame[t].state].email_change_count = frame[t].count + 1]
    /\ Goto(t, "rud73")
    /\ UNCHANGED <<current_session_id, recorded_questions,
                   recorded_questions_raw, pushes, result, calls, frame>>

\* tools.py:73-74
rud73(t) ==
    /\ pc[t] = "rud73"
    /\ IF session_states[frame[t].state].email_change_count > 1
       THEN Return(t, ContactEntry(t, "suspicious"))
       ELSE Goto(t, "rud75") /\ UNCHANGED <<frame, calls>>
    /\ UNCHANGED <<session_states, current_session_id, recorded_questions,
                   recorded_questions_raw, pushes, result>>

\* tools.py:75-76
rud75(t) ==
    /\ pc[t] = "rud75"
    /\ session_states' =
           [session_states EXCEPT ![frame[t].state].recorded_email = frame[t].key]
    /\ Return(t, ContactEntry(t, "corrected"))
    /\ UNCHANGED <<current_session_id, recorded_questions,
                   recorded_questions_raw, pushes, result>>

\* tools.py:79
rud79(t) ==
    /\ pc[t] = "rud79"
    /\ pushes' = push(pushes, ContactMessage(frame[t].email))
    /\ frame' = [frame EXCEPT ![t].npush = @ + 1]
    /\ Goto(t, "rud80")
    /\ UNCHANGED <<session_states, current_session_id, recorded_questions,
                   recorded_questions_raw, result, calls>>

\* tools.py:80
rud80(t) ==
    /\ pc[t] = "rud80"
    /\ session_states' =
           [session_states EXCEPT ![frame[t].state].notification_sent = TRUE]
    /\ Goto(t, "rud81")
    /\ UNCHANGED <<current_session_id, recorded_questions,
                   recorded_questions_raw, pushes, result, calls, frame>>

\* tools.py:81-82
rud81(t) ==
    /\ pc[t] = "rud81"
    /\ session_states' =
           [session_states EXCEPT ![frame[t].state].recorded_email = frame[t].key]
    /\ Return(t, ContactEntry(t, "ok"))
    /\ UNCHANGED <<current_session_id, recorded_questions,
                   recorded_questions_raw, pushes, result>>

\* tools.py:128-129
ruq128(t) ==
    /\ pc[t] = "ruq128"
    /\ frame' = [frame EXCEPT ![t].key = normalize(frame[t].question)]
    /\ Goto(t, IF is_recorded(recorded_questions, normalize(frame[t].question))
               THEN "ruq130" ELSE "ruq131")
    /\ UNCHANGED <<session_states, current_session_id, recorded_questions,
                   recorded_questions_raw, pushes, result, calls>>

\* tools.py:130
ruq130(t) ==
    /\ pc[t] = "ruq130"
    /\ Return(t, QuestionEntry(t, "already_recorded"))
    /\ UNCHANGED <<session_states, current_session_id, recorded_questions,
                   recorded_questions_raw, pushes, result>>

\* tools.py:131
ruq131(t) ==
    /\ pc[t] = "ruq131"
    /\ recorded_questions' = recorded_questions \cup {frame[t].key}
    /\ Goto(t, "ruq132")
    /\ UNCHANGED <<session_states, current_session_id, recorded_questions_raw,
                   pushes, result, calls, frame>>

\* tools.py:132
ruq132(t) ==
    /\ pc[t] = "ruq132"
    /\ recorded_questions_raw' = Append(recorded_questions_raw, frame[t].question)
    /\ Goto(t, "ruq133")
    /\ UNCHANGED <<session_states, current_session_id, recorded_questions,
                   pushes, result, calls, frame>>

\* tools.py:133
ruq133(t) ==
    /\ pc[t] = "ruq133"
    /\ pushes' = push(pushes, QuestionMessage(frame[t].question))
    /\ frame' = [frame EXCEPT ![t].npush = @ + 1]
    /\ Goto(t, "ruq134")
    /\ UNCHANGED <<session_states, current_session_id, recorded_questions,
                   recorded_questions_raw, result, calls>>

\* tools.py:134
ruq134(t) ==
    /\ pc[t] = "ruq134"
    /\ Return(t, QuestionEntry(t, "ok"))
    /\ UNCHANGED <<session_states, current_session_id, recorded_questions,
                   recorded_questions_raw, pushes, result>>

NextConc ==
    \E t \in Threads :
        \/ \E session_id \in SessionIds : chat_begin(t, session_id)
        \/ \E email \in ConcEmails, override \in BOOLEAN :
              invoke_record_user_details(t, email, override)
        \/ \E question \in ConcQuestions : invoke_record_unknown_question(t, question)
        \/ invoke_final(t)
        \/ rud59(t) \/ rud63(t) \/ rud65(t) \/ rud66(t) \/ rud69(t) \/ rud70(t)
        \/ rud72_load(t) \/ rud72_store(t) \/ rud73(t) \/ rud75(t)
        \/ rud79(t) \/ rud80(t) \/ rud81(t)
        \/ ruq128(t) \/ ruq130(t) \/ ruq131(t) \/ ruq132(t) \/ ruq133(t)
        \/ ruq134(t)

SpecConc == InitConc /\ [][NextConc]_vars

(***************************************************************************)
(* Reading the call history                                                *)
(***************************************************************************)
IsContactCall(e) == e.op = "record_user_details"

\* the record_user_details calls made while session s was current, in order
SessionCalls(s) ==
    SelectSeq(calls, LAMBDA e : IsContactCall(e) /\ e.sid = s)

RECURSIVE Notified(_)
Notified(log) ==
    IF log = <<>> THEN 0 ELSE Head(log).npush + Notified(Tail(log))

\* an override call that was accepted
Accepted(e) == e.override /\ e.recorded = "ok"

\* the recording cycle of the i-th call: 0 before the accepted override, 1 from it on
CycleOf(log, i) == Cardinality({j \in 1..i : Accepted(log[j])})

CycleCalls(log, c) ==
    LET Idx == {i \in 1..Len(log) : CycleOf(log, i) = c}
        RECURSIVE Pick(_)
        Pick(i) == IF i > Len(log) THEN <<>>
                   ELSE (IF i \in Idx THEN <<log[i]>> ELSE <<>>) \o Pick(i + 1)
    IN  Pick(1)

\* the normalized form of an email as the claims word it: lower-cased, trimmed
Normalized(email) == strip(lower(email))

(***************************************************************************)
(* C1: in every session at most one contact notification is delivered per  *)
(* recording cycle (the initial one, and the one the accepted override     *)
(* opens), and a call that returns already_recorded, corrected, suspicious *)
(* or already_overridden delivers none.                                    *)
(***************************************************************************)
C1_OnePerCycle ==
    \A s \in SessionIds :
        LET log == SessionCalls(s)
        IN  /\ \A c \in 0..Len(log) : Notified(CycleCalls(log, c)) <= 1
            /\ \A i \in 1..Len(log) :
                   log[i].recorded \in {"already_recorded", "corrected",
                                        "suspicious", "already_overridden"}
                       => log[i].npush = 0

C1_Witness ==
    \E s \in SessionIds :
        LET log == SessionCalls(s)
        IN  /\ Len(log) = 4
            /\ log[2].recorded = "corrected"
            /\ Accepted(log[3])
            /\ log[4].recorded \in {"suspicious", "already_overridden"}
            /\ Notified(log) = 2

(***************************************************************************)
(* C2: two calls without override on a fresh session whose emails have the *)
(* same normalized form return ok then already_recorded, deliver exactly   *)
(* one notification, and the second call leaves the session state as it    *)
(* found it.                                                               *)
(***************************************************************************)
C2_RepeatIsAlreadyRecorded ==
    \A s \in SessionIds :
        LET log == SessionCalls(s)
        IN  (/\ Len(log) >= 2
             /\ ~log[1].override
             /\ ~log[2].override
             /\ Normalized(log[1].email) = Normalized(log[2].email))
            => /\ log[1].recorded = "ok"
               /\ log[2].recorded = "already_recorded"
               /\ log[1].npush + log[2].npush = 1
               /\ log[2].post = log[2].pre

C2_Witness ==
    \E s \in SessionIds :
        LET log == SessionCalls(s)
        IN  /\ Len(log) >= 2
            /\ ~log[1].override
            /\ ~log[2].override
            /\ log[1].email # log[2].email
            /\ Normalized(log[1].email) = Normalized(log[2].email)
            /\ log[2].recorded = "already_recorded"

(***************************************************************************)
(* C3: three calls without override on a fresh session with pairwise       *)
(* distinct normalized emails return ok, corrected, suspicious and deliver *)
(* exactly one notification.                                               *)
(***************************************************************************)
C3_OkCorrectedSuspicious ==
    \A s \in SessionIds :
        LET log == SessionCalls(s)
        IN  (/\ Len(log) >= 3
             /\ \A i \in 1..3 : ~log[i].override
             /\ \A i, j \in 1..3 :
                    i # j => Normalized(log[i].email) # Normalized(log[j].email))
            => /\ log[1].recorded = "ok"
               /\ log[2].recorded = "corrected"
               /\ log[3].recorded = "suspicious"
               /\ Notified(SubSeq(log, 1, 3)) = 1

C3_Witness ==
    \E s \in SessionIds :
        LET log == SessionCalls(s)
        IN  /\ Len(log) >= 3
            /\ \A i \in 1..3 : ~log[i].override
            /\ \A i, j \in 1..3 :
                   i # j => Normalized(log[i].email) # Normalized(log[j].email)
            /\ log[3].recorded = "suspicious"

(***************************************************************************)
(* C4: a call with override on a session whose notification was sent and   *)
(* whose override is unused returns ok, delivers the session's second      *)
(* notification whatever the email, and sets recorded_email to the call's  *)
(* normalized email.                                                       *)
(***************************************************************************)
C4_OverrideRenotifies ==
    \A s \in SessionIds :
        LET log == SessionCalls(s)
        IN  \A i \in 1..Len(log) :
                (/\ log[i].override
                 /\ log[i].pre.notification_sent
                 /\ ~log[i].pre.override_used)
                => /\ log[i].recorded = "ok"
                   /\ log[i].npush = 1
                   /\ Notified(SubSeq(log, 1, i)) = 2
                   /\ log[i].post.recorded_email = Normalized(log[i].email)
                   /\ log[i].post.notification_sent

C4_Witness ==
    \E s \in SessionIds :
        LET log == SessionCalls(s)
        IN  \E i \in 1..Len(log) :
                /\ log[i].override
                /\ log[i].pre.notification_sent
                /\ ~log[i].pre.override_used
                /\ Normalized(log[i].email) = log[i].pre.recorded_email
                /\ log[i].email # log[1].email
                /\ log[i].recorded = "ok"

OverrideUsedStays ==
    \A s \in DOMAIN session_states :
        session_states[s].override_used
            => s \in DOMAIN session_states' /\ session_states'[s].override_used

SecondOverrideRejected ==
    \A i \in 1..Len(calls) :
        (IsContactCall(calls[i]) /\ calls[i].override /\ calls[i].pre.override_used)
            => /\ calls[i].recorded = "already_overridden"
               /\ calls[i].npush = 0
               /\ calls[i].post = calls[i].pre

(***************************************************************************)
(* C5: override_used of a session, once true, stays true; and a call with  *)
(* override made while override_used is true returns already_overridden,   *)
(* delivers nothing and leaves the session state as it found it.           *)
(***************************************************************************)
C5_OverrideOnce == [][OverrideUsedStays]_vars /\ []SecondOverrideRejected

C5_Witness ==
    \E i \in 1..Len(calls) :
        /\ IsContactCall(calls[i])
        /\ calls[i].override
        /\ calls[i].pre.override_used
        /\ calls[i].pre.notification_sent
        /\ calls[i].recorded = "already_overridden"

OtherSessionsUntouched ==
    \A s \in SessionIds \ {current_session_id} :
        /\ (s \in DOMAIN session_states') <=> (s \in DOMAIN session_states)
        /\ s \in DOMAIN session_states => session_states'[s] = session_states[s]

FirstCallsIndependent ==
    \A s1, s2 \in SessionIds :
        LET log1 == SessionCalls(s1)
            log2 == SessionCalls(s2)
        IN  (/\ s1 # s2
             /\ log1 # <<>>
             /\ log2 # <<>>
             /\ Normalized(log1[1].email) = Normalized(log2[1].email))
            => /\ log1[1].recorded = "ok" /\ log1[1].npush = 1
               /\ log2[1].recorded = "ok" /\ log2[1].npush = 1

(***************************************************************************)
(* C6: a record_user_details call changes no session state but that of the *)
(* current session, and two sessions whose first calls carry the same      *)
(* normalized email both get ok and one notification each.                 *)
(***************************************************************************)
C6_SessionIsolation == [][OtherSessionsUntouched]_vars /\ []FirstCallsIndependent

C6_Witness ==
    \E s1, s2 \in SessionIds :
        LET log1 == SessionCalls(s1)
            log2 == SessionCalls(s2)
        IN  /\ s1 # s2
            /\ log1 # <<>>
            /\ log2 # <<>>
            /\ log1[1].email = log2[1].email
            /\ log1[1].recorded = "ok"
            /\ log2[1].recorded = "ok"
            /\ Len(pushes) = 2

Punctuation == {"?", "!", "_", "@"}

PunctuationStrippedKey(q) ==
    LET NotPunctuation(c) == c \notin Punctuation
    IN  strip(sub_spaces(SelectSeq(lower(q), NotPunctuation)))

IsQuestionCall(e) == e.op = "record_unknown_question"

FirstOkLaterAlreadyRecorded(Key(_)) ==
    \A j \in 1..Len(calls) :
        IsQuestionCall(calls[j]) =>
            IF \E i \in 1..(j - 1) :
                   /\ IsQuestionCall(calls[i])
                   /\ Key(calls[i].question) = Key(calls[j].question)
            THEN /\ calls[j].recorded = "already_recorded"
                 /\ calls[j].npush = 0
                 /\ calls[j].post = calls[j].pre
            ELSE /\ calls[j].recorded = "ok"
                 /\ calls[j].npush = 1

(***************************************************************************)
(* C10 as worded: the key is the question lower-cased, with punctuation    *)
(* stripped, whitespace collapsed and trimmed.  Of the calls whose         *)
(* questions share a key the first returns ok and notifies once, every     *)
(* later one returns already_recorded, notifies nobody and leaves the key  *)
(* set and the raw sequence as they were.                                  *)
(***************************************************************************)
C10_PunctuationKey == FirstOkLaterAlreadyRecorded(PunctuationStrippedKey)

WordKey(q) ==
    LET Kept(c) == c \in WordChars \/ c \in Whitespace
    IN  strip(sub_spaces(lower(SelectSeq(q, Kept))))

(***************************************************************************)
(* C10 amended: the same with the key the code computes, in which every    *)
(* character other than a letter, a digit, the underscore and whitespace   *)
(* is removed: the underscore stays.                                       *)
(***************************************************************************)
C10_WordKey == FirstOkLaterAlreadyRecorded(WordKey)

C10_Witness ==
    \E i, j \in 1..Len(calls) :
        /\ i < j
        /\ IsQuestionCall(calls[i])
        /\ IsQuestionCall(calls[j])
        /\ calls[i].question # calls[j].question
        /\ WordKey(calls[i].question) = WordKey(calls[j].question)
        /\ calls[i].recorded = "ok"
        /\ calls[j].recorded = "already_recorded"
        /\ Len(pushes) = 1

InContactCall(t) ==
    pc[t] \in {"rud63", "rud65", "rud66", "rud69", "rud70", "rud72", "rud72s",
               "rud73", "rud75", "rud79", "rud80", "rud81"}

(***************************************************************************)
(* C7: with chat turns of different sessions running concurrently, every   *)
(* record_user_details call made for a turn works on the session state of  *)
(* that turn's own session identifier.                                     *)
(***************************************************************************)
C7_OwnSessionOnly ==
    /\ \A t \in Threads : InContactCall(t) => frame[t].state = frame[t].session_id
    /\ \A i \in 1..Len(calls) :
           IsContactCall(calls[i]) => calls[i].state = calls[i].sid

Quiescent == \A t \in Threads : pc[t] \in {"idle", "invoke", "done"}

RECURSIVE SerialAgrees(_, _, _)
SerialAgrees(state, seq, final) ==
    IF seq = <<>> THEN state = final
    ELSE LET out == record_user_details_on(state, Head(seq).email, Head(seq).override)
         IN  /\ out.recorded = Head(seq).recorded
             /\ Len(out.sent) = Head(seq).npush
             /\ SerialAgrees(out.state, Tail(seq), final)

(***************************************************************************)
(* C8: concurrent record_user_details calls on one session behave as if    *)
(* run one at a time in some order: once no call is in progress, some      *)
(* ordering of the session's completed calls, run one after the other from *)
(* a fresh state, gives every call the value and the notifications it got  *)
(* and ends in the session's state (so two concurrent first recordings     *)
(* notify once, and email_change_count is the number of different-email    *)
(* calls).                                                                 *)
(***************************************************************************)
C8_Serializable ==
    Quiescent =>
        \A s \in DOMAIN session_states :
            LET Idx == {i \in 1..Len(calls) :
                            IsContactCall(calls[i]) /\ calls[i].state = s}
            IN  \E order \in Listings(Idx) :
                    SerialAgrees(SessionState0,
                                 [k \in 1..Len(order) |-> calls[order[k]]],
                                 session_states[s])

(***************************************************************************)
(* C9: of concurrent record_unknown_question calls whose questions have    *)
(* the same normalized key only one finds the key absent: no two of them   *)
(* return ok, no two notifications and no two raw entries carry that key.  *)
(***************************************************************************)
C9_OneRecordingPerKey ==
    /\ \A i, j \in 1..Len(calls) :
           (/\ i # j
            /\ IsQuestionCall(calls[i])
            /\ IsQuestionCall(calls[j])
            /\ normalize(calls[i].question) = normalize(calls[j].question))
           => ~(calls[i].recorded = "ok" /\ calls[j].recorded = "ok")
    /\ \A i, j \in 1..Len(recorded_questions_raw) :
           i # j => normalize(recorded_questions_raw[i])
                        # normalize(recorded_questions_raw[j])
    /\ \A i, j \in 1..Len(pushes) :
           (i # j /\ pushes[i].kind = "question" /\ pushes[j].kind = "question")
           => normalize(pushes[i].question) # normalize(pushes[j].question)

(***************************************************************************)
(* Claims about the value record_unknown_question hands back               *)
(***************************************************************************)
\* the elements of a sequence
Range(seq) == {seq[i] : i \in DOMAIN seq}

\* the last completed call of the log
LastCall == calls[Len(calls)]

MaxTurns == 1
MaxToolRounds == 2

\* chat.py:101-199  the text system_prompt() builds
SystemPrompt == [text |-> "system prompt"]

UserMessages == { [text |-> "hello"] }

Histories ==
    { <<>>,
      << [role |-> "user", content |-> [text |-> "earlier question"]],
         [role |-> "assistant", content |-> [text |-> "earlier answer"]] >> }

FinalContents == { [text |-> "final answer"] }

\* chat.py:205  json.loads(tool_call.function.arguments)
ArgumentsOf(value) == [parses |-> TRUE, value |-> value]
MalformedArguments == [parses |-> FALSE, value |-> [text |-> "{"]]

\* chat.py:207-211  the names handle_tool_call knows
DeclaredTools ==
    {"record_user_details", "record_unknown_question",
     "check_question_similarity"}

RUD(email, override) ==
    [name |-> "record_user_details",
     arguments |-> ArgumentsOf([email |-> email, override |-> override])]
RUQ(question) ==
    [name |-> "record_unknown_question",
     arguments |-> ArgumentsOf([question |-> question])]
CQS(question) ==
    [name |-> "check_question_similarity",
     arguments |-> ArgumentsOf([question |-> question])]
UnknownTool ==
    [name |-> "send_email", arguments |-> ArgumentsOf([text |-> "x"])]
UnknownToolMalformed ==
    [name |-> "send_email", arguments |-> MalformedArguments]

\* the tool-call lists a response of the model may carry
ToolRequests ==
    { << RUQ(<<"A", "b", "?">>) >>,
      << RUQ(<<"a", "b">>) >>,
      << RUD(<<"a", "@", "b">>, FALSE) >>,
      << RUD(<<"c", "@", "b">>, TRUE) >>,
      << CQS(<<"a", "b">>) >>,
      << UnknownTool, RUQ(<<"a", "_", "b">>) >>,
      << UnknownToolMalformed, RUQ(<<"a", "b">>) >> }

\* exceptions chat.completions.create raises; APITimeoutError is a subclass
\* of APIConnectionError
ModelFailures ==
    {"RateLimitError", "AuthenticationError", "APIConnectionError",
     "APITimeoutError", "InternalServerError"}

\* chat.py:249,256,263,270  the except clause that catches an exception
except_clause_generic(exc) == "other"
except_clause(exc) ==
    CASE exc = "RateLimitError" -> "rate_limit"
      [] exc = "AuthenticationError" -> "authentication"
      [] exc \in {"APIConnectionError", "APITimeoutError"} -> "connection"
      [] OTHER -> "other"

\* chat.py:250,257,264,271  the text handed to push() by each clause
WarningMessage(class, exc) ==
    CASE class = "rate_limit" ->
            [kind |-> "warning", tag |-> "rate limit or quota exceeded",
             detail |-> "none"]
      [] class = "authentication" ->
            [kind |-> "warning", tag |-> "authentication error",
             detail |-> "none"]
      [] class = "connection" ->
            [kind |-> "warning", tag |-> "connection error",
             detail |-> "none"]
      [] OTHER ->
            [kind |-> "warning", tag |-> "Unexpected error in chat",
             detail |-> exc]

\* chat.py:251-255,258-262,265-269,273-277  the reply of each clause
FallbackReply(class) ==
    CASE class = "rate_limit" ->
            [text |-> "unable to respond right now due to high demand",
             contact |-> "https://linkedin.com/in/alexrabinovichpro"]
      [] class = "authentication" ->
            [text |-> "experiencing a technical issue",
             contact |-> "https://linkedin.com/in/alexrabinovichpro"]
      [] class = "connection" ->
            [text |-> "having trouble connecting right now",
             contact |-> "https://linkedin.com/in/alexrabinovichpro"]
      [] OTHER ->
            [text |-> "Something unexpected happened on my end",
             contact |-> "https://linkedin.com/in/alexrabinovichpro"]

\* chat.py:214  json.dumps(result)
json_dumps(value) == [json |-> value]

\* chat.py:212  the result of a name handle_tool_call does not know
EmptyResult == [empty |-> TRUE]

\* chat.py:222  [system] + history + [user]
assemble_without_history(history, message) ==
    <<[role |-> "system", content |-> SystemPrompt]>>
        \o <<[role |-> "user", content |-> message]>>
assemble(history, message) ==
    <<[role |-> "system", content |-> SystemPrompt]>> \o history
        \o <<[role |-> "user", content |-> message]>>

\* tools.py:96-114  the answers of the classifier, one per recorded question
Verdicts == {"similar", "different", "error"}

\* tools.py:91-115  the loop of _is_semantically_similar from the i-th
\* recorded question on: one classifier call per question until one answers
\* similar; a call that raises is skipped by the except clause
RECURSIVE semantic_comparisons_error_stops(_, _, _)
semantic_comparisons_error_stops(existing, verdicts, i) ==
    IF i > Len(existing) THEN [similar |-> FALSE, asked |-> <<>>]
    ELSE IF verdicts[i] = "similar"
         THEN [similar |-> TRUE, asked |-> <<i>>]
         ELSE IF verdicts[i] = "error"
              THEN [similar |-> FALSE, asked |-> <<i>>]
              ELSE LET rest == semantic_comparisons_error_stops(
                                   existing, verdicts, i + 1)
                   IN  [similar |-> rest.similar, asked |-> <<i>> \o rest.asked]
RECURSIVE semantic_comparisons_exhaustive(_, _, _)
semantic_comparisons_exhaustive(existing, verdicts, i) ==
    IF i > Len(existing) THEN [similar |-> FALSE, asked |-> <<>>]
    ELSE LET rest == semantic_comparisons_exhaustive(existing, verdicts, i + 1)
         IN  [similar |-> verdicts[i] = "similar" \/ rest.similar,
              asked |-> <<i>> \o rest.asked]
RECURSIVE semantic_comparisons(_, _, _)
semantic_comparisons(existing, verdicts, i) ==
    IF i > Len(existing) THEN [similar |-> FALSE, asked |-> <<>>]
    ELSE IF verdicts[i] = "similar"
         THEN [similar |-> TRUE, asked |-> <<i>>]
         ELSE LET rest == semantic_comparisons(existing, verdicts, i + 1)
              IN  [similar |-> rest.similar, asked |-> <<i>> \o rest.asked]

\* tools.py:88-115  _is_semantically_similar; the client is set by
\* Me.__init__ (chat.py:20-21)
is_semantically_similar(existing, verdicts) ==
    semantic_comparisons(existing, verdicts, 1).similar

\* tools.py:118-124
check_question_similarity_on(keys, raw, question, verdicts) ==
    [question |-> question,
     already_recorded |->
         \/ is_recorded(keys, normalize(question))
         \/ is_semantically_similar(raw, verdicts)]

\* tools.py:120-123  the recorded questions the classifier is asked about, by
\* position in the raw sequence: none when the key is already recorded
classifier_calls(keys, raw, question, verdicts) ==
    IF is_recorded(keys, normalize(question)) THEN <<>>
    ELSE semantic_comparisons(raw, verdicts, 1).asked

(***************************************************************************)
(* Whole-handler actions of the question registry with the similarity      *)
(* check: tools.py:88-134                                                  *)
(***************************************************************************)
SimRecorded == { <<"A", "b", "?">>, <<"a", "_", "b">> }

SimChecked == { <<"a", "b">>, <<"c">> }

\* tools.py:118-124
check_question_similarity(question) ==
    /\ Len(calls) < MaxCalls
    /\ \E verdicts \in [1..Len(recorded_questions_raw) -> Verdicts] :
           LET out == check_question_similarity_on(recorded_questions,
                          recorded_questions_raw, question, verdicts)
               asked == classifier_calls(recorded_questions,
                            recorded_questions_raw, question, verdicts)
               registry == [keys |-> recorded_questions,
                            raw |-> recorded_questions_raw]
           IN  /\ result' = out
               /\ calls' = Append(calls,
                      [op |-> "check_question_similarity",
                       question |-> question,
                       already_recorded |-> out.already_recorded,
                       asked |-> asked,
                       answers |-> [k \in 1..Len(asked) |-> verdicts[asked[k]]],
                       npush |-> 0, pre |-> registry, post |-> registry])
    /\ UNCHANGED <<session_states, current_session_id, recorded_questions,
                   recorded_questions_raw, pushes, pc, frame>>

NextSim ==
    \/ \E question \in SimRecorded : record_unknown_question(question)
    \/ \E question \in SimChecked : check_question_similarity(question)

SpecSim == Init /\ [][NextSim]_vars

NoFrame ==
    [turn |-> 0, entry |-> "none",
     given |-> [session_id |-> "", history |-> <<>>, message |-> [text |-> ""]],
     history |-> <<>>, messages |-> <<>>, first_sent |-> <<>>,
     invocations |-> 0, tool_calls |-> <<>>, pending |-> <<>>,
     results |-> <<>>, exc |-> "none", reply |-> [text |-> "none"],
     rounds |-> 0,
     before |-> [keys |-> {}, raw |-> <<>>, npush |-> 0]]

InitChat ==
    /\ session_states = [s \in {} |-> SessionState0]
    /\ current_session_id = ""
    /\ recorded_questions = {}
    /\ recorded_questions_raw = <<>>
    /\ pushes = <<>>
    /\ result = [recorded |-> "none"]
    /\ calls = <<>>
    /\ pc = "idle"
    /\ frame = NoFrame

\* chat.py:220-224  set_session_id, the message list, entry into the try
enter_chat(entry, given, message, history, session_id) ==
    /\ pc \in {"idle", "returned", "escaped"}
    /\ frame.turn < MaxTurns
    /\ current_session_id' = session_id
    /\ frame' = [NoFrame EXCEPT
                    !.turn = frame.turn + 1,
                    !.rounds = frame.rounds,
                    !.entry = entry,
                    !.given = given,
                    !.history = history,
                    !.messages = assemble(history, message),
                    !.before = [keys |-> recorded_questions,
                                raw |-> recorded_questions_raw,
                                npush |-> Len(pushes)]]
    /\ pc' = "invoke"
    /\ UNCHANGED <<session_states, recorded_questions, recorded_questions_raw,
                   pushes, result, calls>>

\* chat.py:220  Me.chat called with its three arguments
Me_chat(message, history, session_id) ==
    enter_chat("call",
               [session_id |-> session_id, history |-> history,
                message |-> message],
               message, history, session_id)

\* main.py:42-46  POST /api/chat: me.chat(request.message, history)
api_chat(request) ==
    enter_chat("http",
               [session_id |-> request.session_id,
                history |-> request.history, message |-> request.message],
               request.message,
               [i \in 1..Len(request.history) |->
                   [role |-> request.history[i].role,
                    content |-> request.history[i].content]],
               "")

\* the messages list as create() gets it on the first invocation
sent_now == IF frame.invocations = 0 THEN frame.messages ELSE frame.first_sent

\* chat.py:228,234,241-242  the model answers with tool calls
model_requests_tools(requested) ==
    /\ pc = "invoke"
    /\ frame.rounds < MaxToolRounds
    /\ LET n == frame.invocations + 1
           tool_calls == [i \in 1..Len(requested) |->
                             [id |-> <<n, i>>, name |-> requested[i].name,
                              arguments |-> requested[i].arguments]]
       IN  frame' = [frame EXCEPT !.invocations = n,
                                  !.rounds = @ + 1,
                                  !.first_sent = sent_now,
                                  !.tool_calls = tool_calls,
                                  !.pending = tool_calls,
                                  !.results = <<>>]
    /\ pc' = "dispatch"
    /\ UNCHANGED <<session_states, current_session_id, recorded_questions,
                   recorded_questions_raw, pushes, result, calls>>

\* chat.py:228,241,245-247  the model answers without tool calls
model_answers(content) ==
    /\ pc = "invoke"
    /\ frame' = [frame EXCEPT !.invocations = @ + 1,
                              !.first_sent = sent_now,
                              !.reply = content]
    /\ pc' = "returned"
    /\ UNCHANGED <<session_states, current_session_id, recorded_questions,
                   recorded_questions_raw, pushes, result, calls>>

\* chat.py:228  create() raises
model_fails(exc) ==
    /\ pc = "invoke"
    /\ frame' = [frame EXCEPT !.invocations = @ + 1,
                              !.first_sent = sent_now,
                              !.exc = exc]
    /\ pc' = "except"
    /\ UNCHANGED <<session_states, current_session_id, recorded_questions,
                   recorded_questions_raw, pushes, result, calls>>

\* chat.py:203,213-217,243-244  the result of one tool call is appended; after
\* the last one the response and the results join the message list
tool_returns_results_first(value) ==
    LET tool_call == Head(frame.pending)
        results == Append(frame.results,
                       [role |-> "tool", content |-> json_dumps(value),
                        tool_call_id |-> tool_call.id])
    IN  IF Tail(frame.pending) = <<>>
        THEN /\ frame' = [frame EXCEPT
                    !.pending = <<>>,
                    !.results = <<>>,
                    !.messages = @ \o results \o
                        <<[role |-> "assistant",
                           tool_calls |-> frame.tool_calls]>>]
             /\ pc' = "invoke"
        ELSE /\ frame' = [frame EXCEPT !.pending = Tail(@),
                                       !.results = results]
             /\ pc' = "dispatch"
tool_returns_stuck(value) ==
    /\ frame' = frame
    /\ pc' = pc
tool_returns_dropping_results(value) ==
    /\ frame' = [frame EXCEPT
            !.pending = Tail(@),
            !.messages = IF Tail(frame.pending) = <<>>
                         THEN @ \o <<[role |-> "assistant",
                                      tool_calls |-> frame.tool_calls]>>
                         ELSE @]
    /\ pc' = IF Tail(frame.pending) = <<>> THEN "invoke" ELSE "dispatch"
tool_returns(value) ==
    LET tool_call == Head(frame.pending)
        results == Append(frame.results,
                       [role |-> "tool", content |-> json_dumps(value),
                        tool_call_id |-> tool_call.id])
    IN  IF Tail(frame.pending) = <<>>
        THEN /\ frame' = [frame EXCEPT
                    !.pending = <<>>,
                    !.results = <<>>,
                    !.messages = @ \o
                        <<[role |-> "assistant",
                           tool_calls |-> frame.tool_calls]>> \o results]
             /\ pc' = "invoke"
        ELSE /\ frame' = [frame EXCEPT !.pending = Tail(@),
                                       !.results = results]
             /\ pc' = "dispatch"

\* an exception leaves handle_tool_call and the try block of chat
tool_raises(exc) ==
    /\ frame' = [frame EXCEPT !.exc = exc]
    /\ pc' = "except"

Dispatching(name) ==
    /\ pc = "dispatch"
    /\ Head(frame.pending).name = name
    /\ Head(frame.pending).arguments.parses

\* chat.py:205  json.loads raises on the arguments of the tool call
dispatch_malformed_arguments ==
    /\ pc = "dispatch"
    /\ ~Head(frame.pending).arguments.parses
    /\ tool_raises("JSONDecodeError")
    /\ UNCHANGED <<session_states, current_session_id, recorded_questions,
                   recorded_questions_raw, pushes, result, calls>>

\* chat.py:207-212  a name that is not in the dict: result = {}
dispatch_unknown_tool_raising ==
    /\ pc = "dispatch"
    /\ Head(frame.pending).name \notin DeclaredTools
    /\ Head(frame.pending).arguments.parses
    /\ tool_raises("KeyError")
    /\ UNCHANGED <<session_states, current_session_id, recorded_questions,
                   recorded_questions_raw, pushes, result, calls>>
dispatch_unknown_tool ==
    /\ pc = "dispatch"
    /\ Head(frame.pending).name \notin DeclaredTools
    /\ Head(frame.pending).arguments.parses
    /\ tool_returns(EmptyResult)
    /\ UNCHANGED <<session_states, current_session_id, recorded_questions,
                   recorded_questions_raw, pushes, result, calls>>

\* chat.py:212 calling tools.py:52-82, push() returning
dispatch_record_user_details ==
    /\ Dispatching("record_user_details")
    /\ LET args   == Head(frame.pending).arguments.value
           sid    == session_key
           states == setdefault(session_states, sid)
           out    == record_user_details_on(states[sid], args.email,
                                            args.override)
       IN  /\ session_states' = [states EXCEPT ![sid] = out.state]
           /\ pushes' = pushes \o out.sent
           /\ tool_returns([recorded |-> out.recorded])
    /\ UNCHANGED <<current_session_id, recorded_questions,
                   recorded_questions_raw, result, calls>>

\* chat.py:212 calling tools.py:127-134, push() returning
dispatch_record_unknown_question ==
    /\ Dispatching("record_unknown_question")
    /\ LET args == Head(frame.pending).arguments.value
           out  == record_unknown_question_on(recorded_questions,
                       recorded_questions_raw, args.question)
       IN  /\ recorded_questions' = out.keys
           /\ recorded_questions_raw' = out.raw
           /\ pushes' = pushes \o out.sent
           /\ \E listing \in returned_questions(out.keys, out.raw) :
                  tool_returns([recorded |-> out.recorded,
                                recorded_questions |-> listing])
    /\ UNCHANGED <<session_states, current_session_id, result, calls>>

\* chat.py:212 calling tools.py:118-124
dispatch_check_question_similarity_recording ==
    /\ Dispatching("check_question_similarity")
    /\ LET args == Head(frame.pending).arguments.value
       IN  /\ \E verdicts \in [1..Len(recorded_questions_raw) -> Verdicts] :
                  tool_returns(check_question_similarity_on(recorded_questions,
                      recorded_questions_raw, args.question, verdicts))
           /\ recorded_questions' =
                  recorded_questions \cup {normalize(args.question)}
    /\ UNCHANGED <<session_states, current_session_id,
                   recorded_questions_raw, pushes, result, calls>>
dispatch_check_question_similarity ==
    /\ Dispatching("check_question_similarity")
    /\ LET args == Head(frame.pending).arguments.value
       IN  \E verdicts \in [1..Len(recorded_questions_raw) -> Verdicts] :
               tool_returns(check_question_similarity_on(recorded_questions,
                   recorded_questions_raw, args.question, verdicts))
    /\ UNCHANGED <<session_states, current_session_id, recorded_questions,
                   recorded_questions_raw, pushes, result, calls>>

\* chat.py:249-277  the matching except clause: push() returns, then the reply
handle_failure_rolling_back ==
    /\ pc = "except"
    /\ LET class == except_clause(frame.exc)
       IN  /\ pushes' = push(pushes, WarningMessage(class, frame.exc))
           /\ frame' = [frame EXCEPT !.reply = FallbackReply(class)]
    /\ pc' = "returned"
    /\ recorded_questions' = frame.before.keys
    /\ recorded_questions_raw' = frame.before.raw
    /\ UNCHANGED <<session_states, current_session_id, result, calls>>
handle_failure_retrying ==
    /\ pc = "except"
    /\ pushes' = push(pushes, WarningMessage(except_clause(frame.exc), frame.exc))
    /\ pc' = "invoke"
    /\ UNCHANGED <<session_states, current_session_id, recorded_questions,
                   recorded_questions_raw, result, calls, frame>>
handle_failure ==
    /\ pc = "except"
    /\ LET class == except_clause(frame.exc)
       IN  /\ pushes' = push(pushes, WarningMessage(class, frame.exc))
           /\ frame' = [frame EXCEPT !.reply = FallbackReply(class)]
    /\ pc' = "returned"
    /\ UNCHANGED <<session_states, current_session_id, recorded_questions,
                   recorded_questions_raw, result, calls>>

\* tools.py:23-32  requests.post raises inside push(): the exception that
\* leaves push() and its caller
PushFailure == "requests.ConnectionError"

\* chat.py:212 calling tools.py:52-79: push() raises at tools.py:79, after the
\* override reset of tools.py:65-66 and before tools.py:80-81
dispatch_record_user_details_push_raises ==
    /\ Dispatching("record_user_details")
    /\ LET args   == Head(frame.pending).arguments.value
           sid    == session_key
           states == setdefault(session_states, sid)
           out    == record_user_details_on(states[sid], args.email,
                                            args.override)
       IN  /\ out.recorded = "ok"
           /\ session_states' =
                  [states EXCEPT ![sid] = override_reset(@, args.override)]
    /\ tool_raises(PushFailure)
    /\ UNCHANGED <<current_session_id, recorded_questions,
                   recorded_questions_raw, pushes, result, calls>>

\* chat.py:212 calling tools.py:127-133: push() raises at tools.py:133, after
\* the key and the raw question were stored
dispatch_record_unknown_question_push_raises ==
    /\ Dispatching("record_unknown_question")
    /\ LET args == Head(frame.pending).arguments.value
           out  == record_unknown_question_on(recorded_questions,
                       recorded_questions_raw, args.question)
       IN  /\ out.recorded = "ok"
           /\ recorded_questions' = out.keys
           /\ recorded_questions_raw' = out.raw
    /\ tool_raises(PushFailure)
    /\ UNCHANGED <<session_states, current_session_id, pushes, result, calls>>

\* chat.py:250,257,264,271  push() raises inside the except clause: the
\* exception leaves chat
handle_failure_push_raises ==
    /\ pc = "except"
    /\ frame' = [frame EXCEPT !.exc = PushFailure]
    /\ pc' = "escaped"
    /\ UNCHANGED <<session_states, current_session_id, recorded_questions,
                   recorded_questions_raw, pushes, result, calls>>

NextChat ==
    \/ \E message \in UserMessages, history \in Histories,
          session_id \in SessionIds : Me_chat(message, history, session_id)
    \/ \E message \in UserMessages, history \in Histories,
          session_id \in SessionIds :
          api_chat([message |-> message, history |-> history,
                    session_id |-> session_id])
    \/ \E requested \in ToolRequests : model_requests_tools(requested)
    \/ \E content \in FinalContents : model_answers(content)
    \/ \E exc \in ModelFailures : model_fails(exc)
    \/ dispatch_malformed_arguments
    \/ dispatch_unknown_tool
    \/ dispatch_record_user_details
    \/ dispatch_record_unknown_question
    \/ dispatch_check_question_similarity
    \/ handle_failure

SpecChat == InitChat /\ [][NextChat]_vars

\* chat.py:228  create() comes back: with tool calls, with an answer, or raising
ModelResponds ==
    \/ \E requested \in ToolRequests : model_requests_tools(requested)
    \/ \E content \in FinalContents : model_answers(content)
    \/ \E exc \in ModelFailures : model_fails(exc)

\* chat.py:203-217,249-277  the straight-line code of the turn runs on
TurnRuns ==
    \/ dispatch_malformed_arguments
    \/ dispatch_unknown_tool
    \/ dispatch_record_user_details
    \/ dispatch_record_unknown_question
    \/ dispatch_check_question_similarity
    \/ handle_failure

NextChatFail ==
    \/ NextChat
    \/ dispatch_record_user_details_push_raises
    \/ dispatch_record_unknown_question_push_raises
    \/ handle_failure_push_raises

SpecChatFail == InitChat /\ [][NextChatFail]_vars

(***************************************************************************)
(* Claims about chat turns                                                 *)
(***************************************************************************)
\* the tool-role messages of the turn
ToolMessages == SelectSeq(frame.messages, LAMBDA m : m.role = "tool")

\* the responses of the model that asked for tools, as kept in the messages
ToolResponses == SelectSeq(frame.messages, LAMBDA m : m.role = "assistant"
                                              /\ "tool_calls" \in DOMAIN m)

\* the result a tool call of the turn got, by the fields it carries
HasResult(id, field) ==
    \E i \in DOMAIN frame.messages :
        /\ frame.messages[i].role = "tool"
        /\ frame.messages[i].tool_call_id = id
        /\ field \in DOMAIN frame.messages[i].content.json

(***************************************************************************)
(* C11: over every step of a chat turn, and of record_unknown_question,    *)
(* check_question_similarity and record_user_details dispatched in it, no  *)
(* normalized key leaves the registry, the number of recorded questions    *)
(* does not decrease, and the raw sequence only grows at its end.          *)
(***************************************************************************)
C11_RegistryNeverShrinks ==
    [][ /\ recorded_questions \subseteq recorded_questions'
        /\ Cardinality(recorded_questions) <= Cardinality(recorded_questions')
        /\ Len(recorded_questions_raw) <= Len(recorded_questions_raw')
        /\ SubSeq(recorded_questions_raw', 1, Len(recorded_questions_raw))
               = recorded_questions_raw ]_vars

\* a question recorded in the first round, a similarity check, a repeat
\* or a contact recording in the second, and the turn has returned
C11_Witness ==
    /\ pc = "returned"
    /\ Len(recorded_questions_raw) >= 1
    /\ HasResult(<<1, 1>>, "recorded_questions")
    /\ \/ HasResult(<<2, 1>>, "already_recorded")
       \/ HasResult(<<2, 1>>, "recorded")

\* the turn has returned the content of a response without tool calls
ModelAnswered == pc = "returned" /\ frame.exc = "none"

\* the tool-role messages that answer the tool call with this id
ResultsFor(id) ==
    {i \in DOMAIN frame.messages :
        /\ frame.messages[i].role = "tool"
        /\ frame.messages[i].tool_call_id = id}

\* every tool call the kept responses asked for
RequestedCalls ==
    UNION { {ToolResponses[r].tool_calls[i] :
                i \in DOMAIN ToolResponses[r].tool_calls} :
            r \in DOMAIN ToolResponses }

\* the turn asked once, for one record_unknown_question on a new question
OneNewQuestionRound ==
    /\ Len(ToolResponses) = 1
    /\ Len(ToolResponses[1].tool_calls) = 1
    /\ ToolResponses[1].tool_calls[1].name = "record_unknown_question"
    /\ normalize(ToolResponses[1].tool_calls[1].arguments.value.question)
           \notin frame.before.keys

(***************************************************************************)
(* C13: a turn whose model asked for tools in k consecutive responses and  *)
(* then answered without a tool request has made k+1 model invocations and *)
(* every requested tool call has exactly one result; with k = 1 and one    *)
(* record_unknown_question on a new question the registry has one entry    *)
(* more than when the turn began.                                          *)
(***************************************************************************)
C13_InvocationsAndDispatches ==
    ModelAnswered =>
        /\ frame.invocations = Len(ToolResponses) + 1
        /\ \A tool_call \in RequestedCalls :
               Cardinality(ResultsFor(tool_call.id)) = 1
        /\ Len(ToolMessages) = Cardinality(RequestedCalls)
        /\ OneNewQuestionRound =>
               /\ Len(recorded_questions_raw) = Len(frame.before.raw) + 1
               /\ Cardinality(recorded_questions)
                      = Cardinality(frame.before.keys) + 1

\* two tool rounds, the first one recording a new question, then the answer
C13_Witness ==
    /\ ModelAnswered
    /\ Len(ToolResponses) = 2
    /\ frame.invocations = 3
    /\ HasResult(<<1, 1>>, "recorded_questions")
    /\ Len(recorded_questions_raw) > Len(frame.before.raw)

\* one tool round with one new question, then the answer
C13_WitnessOneRound == ModelAnswered /\ OneNewQuestionRound

\* the messages handed to push() since the turn began
TurnPushes == SubSeq(pushes, frame.before.npush + 1, Len(pushes))

\* the operator warnings among them
TurnWarnings == SelectSeq(TurnPushes, LAMBDA m : m.kind = "warning")

\* the turn has returned after create() raised
ModelFailed == pc = "returned" /\ frame.exc \in ModelFailures

LinkedIn == "https://linkedin.com/in/alexrabinovichpro"

\* what each failure of the model is to give: its class, reply and tag
Expected(exc) ==
    CASE exc = "RateLimitError" ->
            [class |-> "rate_limit",
             reply |-> "unable to respond right now due to high demand",
             tag |-> "rate limit or quota exceeded", detail |-> "none"]
      [] exc = "AuthenticationError" ->
            [class |-> "authentication",
             reply |-> "experiencing a technical issue",
             tag |-> "authentication error", detail |-> "none"]
      [] exc \in {"APIConnectionError", "APITimeoutError"} ->
            [class |-> "connection",
             reply |-> "having trouble connecting right now",
             tag |-> "connection error", detail |-> "none"]
      [] OTHER ->
            [class |-> "other",
             reply |-> "Something unexpected happened on my end",
             tag |-> "Unexpected error in chat", detail |-> exc]

(***************************************************************************)
(* C14: a failure of the model invocation falls into one of four classes   *)
(* (rate/quota, authentication, connection, other); the turn returns the   *)
(* fixed reply of that class, which names the fallback contact, and has    *)
(* handed exactly one warning to push(), carrying the tag of the class and,*)
(* for the class other, the type name of the failure.  The replies and     *)
(* tags of different classes differ.                                       *)
(***************************************************************************)
C14_FailureClasses ==
    /\ ModelFailed =>
           /\ frame.reply.text = Expected(frame.exc).reply
           /\ frame.reply.contact = LinkedIn
           /\ Len(TurnWarnings) = 1
           /\ TurnWarnings[1].tag = Expected(frame.exc).tag
           /\ TurnWarnings[1].detail = Expected(frame.exc).detail
    /\ \A e1, e2 \in ModelFailures :
           Expected(e1).class # Expected(e2).class =>
               /\ FallbackReply(except_clause(e1)) # FallbackReply(except_clause(e2))
               /\ WarningMessage(except_clause(e1), e1).tag
                      # WarningMessage(except_clause(e2), e2).tag

\* a failure of class other after a tool round that recorded a contact
C14_Witness ==
    /\ ModelFailed
    /\ frame.exc = "InternalServerError"
    /\ Len(ToolResponses) = 1
    /\ Len(TurnPushes) = 2

\* a rate-limit failure on the first invocation
C14_WitnessRateLimit ==
    ModelFailed /\ frame.exc = "RateLimitError" /\ frame.invocations = 1

\* a step inside the turn in which create() has raised
AfterModelFailure == frame.exc \in ModelFailures /\ frame'.turn = frame.turn

(***************************************************************************)
(* C15: once a model invocation has failed in a turn, the rest of the turn *)
(* makes no model invocation and dispatches no tool: the invocation count, *)
(* the messages, the sessions and the registry stay as they are and the    *)
(* turn is never again at the model call or inside handle_tool_call.       *)
(***************************************************************************)
C15_FailureIsTerminal ==
    [][ AfterModelFailure =>
          /\ frame'.invocations = frame.invocations
          /\ frame'.messages = frame.messages
          /\ frame'.pending = frame.pending
          /\ pc' \notin {"invoke", "dispatch"}
          /\ UNCHANGED <<session_states, recorded_questions,
                         recorded_questions_raw>> ]_vars

\* the second invocation failed, after a tool round, and the turn returned
C15_Witness ==
    /\ ModelFailed
    /\ frame.invocations = 2
    /\ Len(ToolMessages) >= 1

\* the replies chat.py:251-277 can return
FallbackReplies ==
    {FallbackReply(class) :
        class \in {"rate_limit", "authentication", "connection", "other"}}

(***************************************************************************)
(* C16: every chat call returns a reply text, the final content of the     *)
(* model or one of the fixed fallback replies, whatever fails inside the   *)
(* turn (the model, a dispatched tool, the arguments of a tool call, a     *)
(* notification delivery); no exception leaves chat.                       *)
(***************************************************************************)
C16_AlwaysReplies ==
    /\ pc # "escaped"
    /\ pc = "returned" => frame.reply \in FinalContents \cup FallbackReplies

\* the turn is about to call a tool that notifies the operator
DispatchingRecorder ==
    /\ pc = "dispatch"
    /\ Head(frame.pending).arguments.parses
    /\ Head(frame.pending).name
           \in {"record_user_details", "record_unknown_question"}

\* the step appended a tool message for that call carrying this outcome
ReturnedOutcome(recorded) ==
    LET id == Head(frame.pending).id
        appended == IF frame'.results # <<>>
                    THEN frame'.results[Len(frame'.results)]
                    ELSE frame'.messages[Len(frame'.messages)]
    IN  /\ pc' \in {"dispatch", "invoke"}
        /\ appended.role = "tool"
        /\ appended.tool_call_id = id
        /\ appended.content.json.recorded = recorded

\* what the call leaves behind and returns when its notification is delivered
AsIfDelivered ==
    LET args == Head(frame.pending).arguments.value
    IN  IF Head(frame.pending).name = "record_user_details"
        THEN LET sid    == session_key
                 states == setdefault(session_states, sid)
                 out    == record_user_details_on(states[sid], args.email,
                                                  args.override)
             IN  /\ session_states' = [states EXCEPT ![sid] = out.state]
                 /\ ReturnedOutcome(out.recorded)
        ELSE LET out == record_unknown_question_on(recorded_questions,
                            recorded_questions_raw, args.question)
             IN  /\ recorded_questions' = out.keys
                 /\ recorded_questions_raw' = out.raw
                 /\ ReturnedOutcome(out.recorded)

(***************************************************************************)
(* C17: notification delivery is fire-and-forget: whether or not the       *)
(* delivery fails, record_user_details and record_unknown_question return  *)
(* the same outcome and leave the same state behind, and the turn goes on  *)
(* to its reply.                                                           *)
(***************************************************************************)
C17_FireAndForget == [][DispatchingRecorder => AsIfDelivered]_vars

\* the turn is about to handle a tool call whose name is not declared
DispatchingUndeclared ==
    pc = "dispatch" /\ Head(frame.pending).name \notin DeclaredTools

\* the step answered that call with the empty result and went on: to the
\* next tool call of the response, or after the last one to the model
EmptyResultAndOn ==
    LET id == Head(frame.pending).id
        answer == [role |-> "tool", content |-> json_dumps(EmptyResult),
                   tool_call_id |-> id]
    IN  /\ IF Tail(frame.pending) # <<>>
           THEN /\ pc' = "dispatch"
                /\ frame'.pending = Tail(frame.pending)
                /\ frame'.results = Append(frame.results, answer)
           ELSE /\ pc' = "invoke"
                /\ frame'.messages[Len(frame'.messages)] = answer
        /\ frame'.exc = "none"
        /\ UNCHANGED <<session_states, recorded_questions,
                       recorded_questions_raw, pushes>>

C19_FirstMessages ==
    /\ frame.history = frame.given.history
    /\ frame.invocations >= 1 =>
           /\ Len(frame.first_sent) = Len(frame.given.history) + 2
           /\ frame.first_sent[1] = [role |-> "system", content |-> SystemPrompt]
           /\ \A i \in DOMAIN frame.given.history :
                  frame.first_sent[i + 1] = frame.given.history[i]
           /\ frame.first_sent[Len(frame.first_sent)]
                  = [role |-> "user", content |-> frame.given.message]

\* a turn with a history of two messages, after a tool round has grown the
\* message list beyond what the first invocation got
C19_Witness ==
    /\ Len(frame.given.history) = 2
    /\ frame.invocations >= 2
    /\ Len(frame.messages) > Len(frame.first_sent)

(***************************************************************************)
(* C20: the chat endpoint forwards the session identifier of the request:  *)
(* during a turn started over HTTP the contact state that                  *)
(* record_user_details reads and writes is the one keyed by the session    *)
(* identifier the client sent, so requests with different identifiers      *)
(* never share a session state.                                            *)
(***************************************************************************)
C20_SessionForwarded ==
    frame.entry = "http" => session_key = frame.given.session_id

(***************************************************************************)
(* Claims about check_question_similarity                                  *)
(***************************************************************************)
IsSimilarityCall(e) == e.op = "check_question_similarity"

SimilarityCalls == SelectSeq(calls, IsSimilarityCall)

(***************************************************************************)
(* C21: in check_question_similarity a classifier call that fails is       *)
(* swallowed: it counts as not similar, the next recorded question is      *)
(* still compared, and the operation returns its result whichever          *)
(* classifier calls fail.                                                  *)
(***************************************************************************)
C21_FailuresSwallowed ==
    \A n \in DOMAIN SimilarityCalls :
        LET e == SimilarityCalls[n]
        IN  /\ e.already_recorded \in BOOLEAN
            /\ \A k \in DOMAIN e.answers :
                   e.answers[k] = "error" =>
                       /\ e.asked[k] < Len(e.pre.raw) => Len(e.asked) > k
                       /\ (\A j \in DOMAIN e.answers : e.answers[j] # "similar")
                              => e.already_recorded
                                     = (normalize(e.question) \in e.pre.keys)

\* the first comparison failed, the second answered similar
C21_Witness ==
    \E n \in DOMAIN SimilarityCalls :
        LET e == SimilarityCalls[n]
        IN  /\ e.answers = <<"error", "similar">>
            /\ e.already_recorded

\* every comparison failed and the check returned false
C21_WitnessAllFail ==
    \E n \in DOMAIN SimilarityCalls :
        LET e == SimilarityCalls[n]
        IN  /\ e.answers = <<"error", "error">>
            /\ ~e.already_recorded

(***************************************************************************)
(* C30: check_question_similarity returns already_recorded = true exactly  *)
(* when the normalized key of the question is in the registry or the       *)
(* classifier answers similar for a recorded raw question.  On an exact    *)
(* key match and with an empty registry the classifier is not called; the  *)
(* recorded questions are compared in order and the comparisons stop at    *)
(* the first similar answer.                                               *)
(***************************************************************************)
C30_ExactOrSimilar ==
    \A n \in DOMAIN SimilarityCalls :
        LET e == SimilarityCalls[n]
            exact == normalize(e.question) \in e.pre.keys
            similar == \E k \in DOMAIN e.answers : e.answers[k] = "similar"
        IN  /\ e.already_recorded = (exact \/ similar)
            /\ exact => e.asked = <<>>
            /\ e.pre.raw = <<>> => e.asked = <<>>
            /\ \A k \in DOMAIN e.asked : e.asked[k] = k
            /\ \A k \in DOMAIN e.answers :
                   e.answers[k] = "similar" => k = Len(e.answers)
            /\ (~exact /\ ~similar) => Len(e.asked) = Len(e.pre.raw)

\* two questions recorded, the first comparison answers similar and the
\* second is not made
C30_Witness ==
    \E n \in DOMAIN SimilarityCalls :
        LET e == SimilarityCalls[n]
        IN  /\ Len(e.pre.raw) = 2
            /\ e.answers = <<"similar">>
            /\ e.already_recorded

\* an exact key match on a registry of two questions, no classifier call
C30_WitnessExact ==
    \E n \in DOMAIN SimilarityCalls :
        LET e == SimilarityCalls[n]
        IN  /\ Len(e.pre.raw) = 2
            /\ normalize(e.question) \in e.pre.keys
            /\ e.asked = <<>>
            /\ e.already_recorded

\* no turn is running
NoTurn == pc \in {"idle", "returned", "escaped"}

\* a turn begins at the model call
BeginsAwaitingModel == (NoTurn /\ pc' # pc) => pc' = "invoke"

\* a turn ends only on a response without tool calls or in an except clause
EndsOnAnswerOrFailure ==
    (~NoTurn /\ pc' = "returned") =>
        \/ /\ pc = "invoke"
           /\ frame'.exc = "none"
           /\ frame'.messages = frame.messages
           /\ frame'.reply \in FinalContents
        \/ /\ pc = "except"
           /\ frame'.reply \in FallbackReplies

\* a response with tool calls keeps the turn going
ToolResponseLoops == (pc = "dispatch" /\ pc' # "dispatch") => pc' \in {"invoke", "except"}

\* the longest list of tool calls a response carries
LongestRequest ==
    CHOOSE n \in {Len(r) : r \in ToolRequests} :
        \A r \in ToolRequests : Len(r) <= n

\* what is left of the turn: the tool responses the model still gives, then
\* the tool calls still to handle, then the model call, then the except clause
Remaining ==
    (MaxToolRounds - frame.rounds) * (LongestRequest + 3)
        + CASE pc = "dispatch" -> 2 + Len(frame.pending)
            [] pc = "invoke" -> 2
            [] pc = "except" -> 1
            [] OTHER -> 0

\* every step of a running turn brings its end nearer
TurnAdvances == ~NoTurn => Remaining' < Remaining

\* a running turn always has a next step
NeverStuck == ~NoTurn => ENABLED (ModelResponds \/ TurnRuns)

\* the loop takes a tool response after any number of rounds
NoIterationCap ==
    (pc = "invoke" /\ frame.rounds < MaxToolRounds) =>
        ENABLED (\E requested \in ToolRequests : model_requests_tools(requested))

SameCycle(log, i) == {j \in 1..i : CycleOf(log, j) = CycleOf(log, i)}

\* the distinct normalized emails submitted in the cycle of the i-th call, up to it
CycleEmails(log, i) == {Normalized(log[j].email) : j \in SameCycle(log, i)}

\* the same, leaving out the emails of rejected override calls
CycleEmailsTaken(log, i) ==
    {Normalized(log[j].email) :
        j \in {k \in SameCycle(log, i) : log[k].recorded # "already_overridden"}}

(***************************************************************************)
(* C23 as stated: a call returns suspicious only when three or more        *)
(* distinct normalized emails have been submitted in its recording cycle.  *)
(***************************************************************************)
C23_ThreeDistinctEmails ==
    \A s \in SessionIds :
        LET log == SessionCalls(s)
        IN  \A i \in 1..Len(log) :
                log[i].recorded = "suspicious"
                    => Cardinality(CycleEmails(log, i)) >= 3

(***************************************************************************)
(* C23: a call returns suspicious only when its normalized email differs   *)
(* from the recorded one and an earlier call of the session returned       *)
(* corrected, in this recording cycle or in the one before the override;   *)
(* the number of distinct emails does not matter.  A call that is not a    *)
(* rejected override and brings a third distinct email to its cycle does   *)
(* return suspicious.                                                      *)
(***************************************************************************)
C23_SecondChange ==
    \A s \in SessionIds :
        LET log == SessionCalls(s)
        IN  \A i \in 1..Len(log) :
                /\ log[i].recorded = "suspicious"
                       => /\ Normalized(log[i].email) # log[i].pre.recorded_email
                          /\ \E j \in 1..(i - 1) : log[j].recorded = "corrected"
                /\ (/\ log[i].recorded # "already_overridden"
                    /\ Cardinality(CycleEmailsTaken(log, i)) >= 3
                    /\ Cardinality(CycleEmailsTaken(log, i - 1)) < 3
                    /\ i > 1
                    /\ CycleOf(log, i - 1) = CycleOf(log, i))
                       => log[i].recorded = "suspicious"

\* a, c, then a again: the third call is suspicious with two distinct emails
C23_Witness ==
    \E s \in SessionIds :
        LET log == SessionCalls(s)
        IN  /\ Len(log) >= 3
            /\ \A i \in 1..3 : ~log[i].override
            /\ Normalized(log[1].email) = Normalized(log[3].email)
            /\ log[2].recorded = "corrected"
            /\ log[3].recorded = "suspicious"
            /\ Cardinality(CycleEmails(log, 3)) = 2

(***************************************************************************)
(* The outcomes a sequence of calls without override has from a state      *)
(***************************************************************************)
RECURSIVE Outcomes(_, _)
Outcomes(state, emails) ==
    IF emails = <<>> THEN <<>>
    ELSE LET out == record_user_details_on(state, Head(emails), FALSE)
         IN  <<out.recorded>> \o Outcomes(out.state, Tail(emails))

\* a fresh session that has just recorded the email
FreshWith(email) == record_user_details_on(SessionState0, email, FALSE).state

\* the calls without override that follow the k-th call
LaterPlain(log, k) ==
    SelectSeq(SubSeq(log, k + 1, Len(log)), LAMBDA e : ~e.override)

(***************************************************************************)
(* C24: after an accepted override, the calls without override that follow *)
(* have the outcomes they would have on a fresh session that has just      *)
(* recorded the override's email, whatever happened before the override.   *)
(***************************************************************************)
C24_FreshCycle ==
    \A s \in SessionIds :
        LET log == SessionCalls(s)
        IN  \A k \in 1..Len(log) :
                Accepted(log[k]) =>
                    LET later == LaterPlain(log, k)
                        fresh == Outcomes(FreshWith(log[k].email),
                                          [i \in 1..Len(later) |-> later[i].email])
                    IN  \A i \in 1..Len(later) : later[i].recorded = fresh[i]

\* how many calls of the log returned one of the outcomes
Returned(log, outcomes) ==
    Cardinality({i \in 1..Len(log) : log[i].recorded \in outcomes})

(***************************************************************************)
(* C25 as stated: in every session state email_change_count is the number  *)
(* of calls of the session that returned corrected.                        *)
(***************************************************************************)
C25_CountsCorrected ==
    \A s \in DOMAIN session_states :
        session_states[s].email_change_count
            = Returned(SessionCalls(s), {"corrected"})

(***************************************************************************)
(* C25: in every session state email_change_count is the number of calls   *)
(* of the session that returned corrected or suspicious, and at most one   *)
(* of them returned corrected.                                             *)
(***************************************************************************)
C25_CountsChanges ==
    \A s \in DOMAIN session_states :
        /\ session_states[s].email_change_count
               = Returned(SessionCalls(s), {"corrected", "suspicious"})
        /\ Returned(SessionCalls(s), {"corrected"}) <= 1

\* one correction and two refusals: the count is three
C25_Witness ==
    \E s \in DOMAIN session_states :
        /\ session_states[s].email_change_count = 3
        /\ Returned(SessionCalls(s), {"corrected"}) = 1
        /\ Returned(SessionCalls(s), {"suspicious"}) = 2

\* the call is made after a notification, is not a rejected or accepted
\* override, and brings an email other than the recorded one
IsChange(e) ==
    /\ ~e.override
    /\ e.pre.notification_sent
    /\ Normalized(e.email) # e.pre.recorded_email

(***************************************************************************)
(* C26: a call raises email_change_count, by one, exactly when it is made  *)
(* without rejection while notification_sent is set and with a normalized  *)
(* email other than recorded_email; a first recording, a repeat of the     *)
(* recorded email, an accepted override and a rejected override leave the  *)
(* count as it is, no call lowers it, and nothing changes it between the   *)
(* calls of a session.                                                     *)
(***************************************************************************)
C26_CountIncrements ==
    /\ \A i \in 1..Len(calls) :
           LET e == calls[i]
           IN  IsContactCall(e) =>
                   /\ e.post.email_change_count >= e.pre.email_change_count
                   /\ e.post.email_change_count =
                          e.pre.email_change_count + (IF IsChange(e) THEN 1 ELSE 0)
                   /\ e.post.email_change_count > e.pre.email_change_count
                          => e.recorded \in {"corrected", "suspicious"}
                   /\ e.recorded \in {"ok", "already_recorded", "already_overridden"}
                          => e.post.email_change_count = e.pre.email_change_count
    /\ \A s \in DOMAIN session_states :
           LET log == SessionCalls(s)
           IN  /\ \A i \in 1..(Len(log) - 1) :
                      log[i + 1].pre.email_change_count
                          = log[i].post.email_change_count
               /\ Len(log) > 0 =>
                      session_states[s].email_change_count
                          = log[Len(log)].post.email_change_count

\* the count went up in a session that then saw a repeat, an accepted
\* override and a rejected one
C26_Witness ==
    \E s \in SessionIds :
        LET log == SessionCalls(s)
        IN  /\ Len(log) = 4
            /\ log[2].post.email_change_count = 1
            /\ \E i \in 3..4 : Accepted(log[i])
            /\ log[4].recorded \in {"already_overridden", "already_recorded"}
            /\ log[4].post.email_change_count = 1

\* the calls of the log, after its first, that changed recorded_email
Rerecordings(log) ==
    {i \in 2..Len(log) : log[i].post.recorded_email # log[i].pre.recorded_email}

(***************************************************************************)
(* C27: a call that returns suspicious delivers no notification and leaves *)
(* recorded_email, notification_sent and override_used as they were (only  *)
(* the count goes up); in a session without override calls recorded_email  *)
(* is changed after the first recording at most once, by the call that     *)
(* returns corrected.                                                      *)
(***************************************************************************)
C27_SuspiciousChangesNothing ==
    \A s \in SessionIds :
        LET log == SessionCalls(s)
        IN  /\ \A i \in 1..Len(log) :
                   log[i].recorded = "suspicious" =>
                       /\ log[i].npush = 0
                       /\ log[i].post =
                              [log[i].pre EXCEPT !.email_change_count = @ + 1]
            /\ (\A i \in 1..Len(log) : ~log[i].override) =>
                   /\ Cardinality(Rerecordings(log)) <= 1
                   /\ \A i \in Rerecordings(log) : log[i].recorded = "corrected"

\* a correction, then two refused emails that differ from each other: the
\* corrected email stays recorded
C27_Witness ==
    \E s \in SessionIds :
        LET log == SessionCalls(s)
        IN  /\ Len(log) = 4
            /\ \A i \in 1..4 : ~log[i].override
            /\ log[2].recorded = "corrected"
            /\ log[3].recorded = "suspicious"
            /\ log[4].recorded = "suspicious"
            /\ Normalized(log[3].email) # Normalized(log[4].email)
            /\ log[4].post.recorded_email = Normalized(log[2].email)
            /\ Notified(log) = 1

(***************************************************************************)
(* C28: a first call of a session made with override records: it returns   *)
(* ok, delivers exactly one notification and records its normalized email; *)
(* it uses up the override of the session, so every later call with        *)
(* override returns already_overridden, delivers nothing and changes       *)
(* nothing.                                                                *)
(***************************************************************************)
C28_OverrideOnFreshSession ==
    \A s \in SessionIds :
        LET log == SessionCalls(s)
        IN  (Len(log) >= 1 /\ log[1].override) =>
                /\ log[1].pre = SessionState0
                /\ log[1].recorded = "ok"
                /\ log[1].npush = 1
                /\ log[1].post.notification_sent
                /\ log[1].post.override_used
                /\ log[1].post.recorded_email = Normalized(log[1].email)
                /\ \A i \in 2..Len(log) :
                       log[i].override =>
                           /\ log[i].recorded = "already_overridden"
                           /\ log[i].npush = 0
                           /\ log[i].post = log[i].pre

\* the session starts with an override call and a later override call, with
\* another email, is turned down
C28_Witness ==
    \E s \in SessionIds :
        LET log == SessionCalls(s)
        IN  /\ Len(log) >= 3
            /\ log[1].override
            /\ log[1].recorded = "ok"
            /\ ~log[2].override
            /\ log[3].override
            /\ Normalized(log[3].email) # Normalized(log[1].email)
            /\ log[3].recorded = "already_overridden"
            /\ Notified(log) = 1

\* new is old, then the response that asked for the tool calls, then one
\* tool message per call, in the order of the calls and with their ids
GrownByRound(old, tool_calls, new) ==
    /\ Len(new) = Len(old) + 1 + Len(tool_calls)
    /\ SubSeq(new, 1, Len(old)) = old
    /\ new[Len(old) + 1] = [role |-> "assistant", tool_calls |-> tool_calls]
    /\ \A i \in 1..Len(tool_calls) :
           /\ new[Len(old) + 1 + i].role = "tool"
           /\ new[Len(old) + 1 + i].tool_call_id = tool_calls[i].id

\* the messages of a running turn change only when handle_tool_call has
\* returned, and then by one round
MessagesGrowByRound ==
    ~NoTurn =>
        IF pc = "dispatch" /\ pc' = "invoke"
        THEN GrownByRound(frame.messages, frame.tool_calls, frame'.messages)
        ELSE frame'.messages = frame.messages

\* every tool message stands in the block of tool messages right after the
\* response that asked for its call, at the place of that call
ToolMessagesFollowRequest ==
    \A i \in DOMAIN frame.messages :
        frame.messages[i].role = "tool" =>
            \E j \in 1..(i - 1) :
                /\ frame.messages[j].role = "assistant"
                /\ "tool_calls" \in DOMAIN frame.messages[j]
                /\ (i - j) \in DOMAIN frame.messages[j].tool_calls
                /\ frame.messages[j].tool_calls[i - j].id
                       = frame.messages[i].tool_call_id
                /\ \A k \in (j + 1)..(i - 1) : frame.messages[k].role = "tool"

(***************************************************************************)
(* C29: when the tool calls of a response have been handled, the messages  *)
(* of the turn grow by exactly the response followed by one tool message   *)
(* per requested call, in request order and each with the id of its call;  *)
(* nothing else changes the messages of a running turn (a tool call that   *)
(* fails ends the turn with the messages as they were).  Every tool        *)
(* message in the messages the model is given comes after the response     *)
(* that asked for it.                                                      *)
(***************************************************************************)
C29_RoundAppended == [][MessagesGrowByRound]_vars /\ []ToolMessagesFollowRequest

\* two rounds have been appended, one of them with two tool calls, and the
\* messages go to the model again
C29_Witness ==
    /\ pc = "invoke"
    /\ Len(ToolResponses) = 2
    /\ \E r \in 1..2 : Len(ToolResponses[r].tool_calls) = 2
    /\ Len(ToolMessages) = 3

(***************************************************************************)
(* C31: over the calls of a session made one after the other, the number   *)
(* of contact notifications delivered is the number of calls that returned *)
(* ok, a call delivers one notification exactly when it returns ok, and    *)
(* the number is at most two: one for the initial cycle and one for the    *)
(* accepted override.                                                      *)
(***************************************************************************)
C31_NotificationsAreOks ==
    /\ \A s \in SessionIds :
           LET log == SessionCalls(s)
           IN  /\ Notified(log) = Returned(log, {"ok"})
               /\ Notified(log) <= 2
               /\ \A i \in 1..Len(log) :
                      log[i].npush = (IF log[i].recorded = "ok" THEN 1 ELSE 0)
    /\ Len(pushes) = Returned(calls, {"ok"})

\* four calls in one session, two of them ok, the other two a correction
\* and a refusal or a repeat
C31_Witness ==
    \E s \in SessionIds :
        LET log == SessionCalls(s)
        IN  /\ Len(log) = 4
            /\ Returned(log, {"ok"}) = 2
            /\ Returned(log, {"corrected"}) = 1
            /\ Notified(log) = 2
            /\ Len(pushes) = 2

(***************************************************************************)
(* C32: with calls made one after the other, the raw sequence of the       *)
(* question registry has as many entries as the key set has keys, the      *)
(* normalized form of every raw entry is a key, and no two raw entries     *)
(* have the same normalized form.                                          *)
(***************************************************************************)
C32_RegistryParallel ==
    /\ Len(recorded_questions_raw) = Cardinality(recorded_questions)
    /\ \A i \in DOMAIN recorded_questions_raw :
           normalize(recorded_questions_raw[i]) \in recorded_questions
    /\ \A i, j \in DOMAIN recorded_questions_raw :
           i # j => normalize(recorded_questions_raw[i])
                        # normalize(recorded_questions_raw[j])

\* three questions are recorded and a fourth, worded differently from the
\* recorded one with its key, was turned down
C32_Witness ==
    /\ Len(recorded_questions_raw) = 3
    /\ Len(calls) = 4
    /\ \E i \in 1..4 :
           /\ calls[i].op = "record_unknown_question"
           /\ calls[i].recorded = "already_recorded"
           /\ calls[i].question \notin Range(calls[i].pre.raw)

(***************************************************************************)
(* C33: once a call of a session has returned suspicious, every later call *)
(* without override made before an accepted override returns suspicious    *)
(* when its normalized email differs from recorded_email and               *)
(* already_recorded when it is recorded_email.                             *)
(***************************************************************************)
C33_SuspiciousSticks ==
    \A s \in SessionIds :
        LET log == SessionCalls(s)
        IN  \A i, j \in 1..Len(log) :
                (/\ i < j
                 /\ log[i].recorded = "suspicious"
                 /\ ~log[j].override
                 /\ CycleOf(log, j) = CycleOf(log, i))
                => log[j].recorded =
                       (IF Normalized(log[j].email) # log[j].pre.recorded_email
                        THEN "suspicious" ELSE "already_recorded")

\* after the refusal the recorded email is repeated
C33_Witness ==
    \E s \in SessionIds :
        LET log == SessionCalls(s)
        IN  /\ Len(log) = 4
            /\ log[3].recorded = "suspicious"
            /\ ~log[4].override
            /\ log[4].recorded = "already_recorded"

\* after the refusal another email is refused as well
C33_WitnessRefusedAgain ==
    \E s \in SessionIds :
        LET log == SessionCalls(s)
        IN  /\ Len(log) = 4
            /\ log[3].recorded = "suspicious"
            /\ ~log[4].override
            /\ Normalized(log[4].email) # Normalized(log[3].email)
            /\ log[4].recorded = "suspicious"

\* the tool messages of the turn that answer a check_question_similarity call
SimilarityResults ==
    {i \in DOMAIN frame.messages :
        /\ frame.messages[i].role = "tool"
        /\ "already_recorded" \in DOMAIN frame.messages[i].content.json}

(***************************************************************************)
(* C34: a step that handles a check_question_similarity call, whatever the *)
(* question and whatever the classifier answers or fails with, leaves the  *)
(* key set, the raw sequence and every session state as they were and      *)
(* hands nothing to push; it never ends in an except clause.               *)
(***************************************************************************)
C34_SimilarityReadOnly ==
    [][Dispatching("check_question_similarity") =>
           /\ recorded_questions' = recorded_questions
           /\ recorded_questions_raw' = recorded_questions_raw
           /\ session_states' = session_states
           /\ current_session_id' = current_session_id
           /\ pushes' = pushes
           /\ pc' \in {"dispatch", "invoke"}]_vars

\* a question is recorded, another one with a new key was checked against
\* it, and the classifier did not call them similar
C34_Witness ==
    /\ pc = "invoke"
    /\ Len(recorded_questions_raw) = 1
    /\ \E i \in SimilarityResults :
           /\ ~frame.messages[i].content.json.already_recorded
           /\ normalize(frame.messages[i].content.json.question)
                  \notin recorded_questions

\* the check ran in a session whose contact details are recorded
C34_WitnessSession ==
    /\ pc = "invoke"
    /\ SimilarityResults # {}
    /\ \E s \in DOMAIN session_states : session_states[s].notification_sent

(***************************************************************************)
(* A turn that fails at the model call after tool rounds, and the same     *)
(* tool calls issued again                                                 *)
(***************************************************************************)
RECURSIVE Flatten(_)
Flatten(responses) ==
    IF responses = <<>> THEN <<>>
    ELSE Head(responses).tool_calls \o Flatten(Tail(responses))

\* the tool calls of the rounds the turn completed, in the order handled
KeptCalls == Flatten(ToolResponses)

\* the state of the session the turn runs in
TurnSession ==
    IF session_key \in DOMAIN session_states
    THEN session_states[session_key] ELSE SessionState0

\* what the recording tools return when the calls are issued again, one
\* after the other, from this session state and registry
RECURSIVE Resubmitted(_, _, _, _)
Resubmitted(state, keys, raw, tool_calls) ==
    IF tool_calls = <<>> THEN <<>>
    ELSE LET tool_call == Head(tool_calls)
             args == tool_call.arguments.value
         IN  CASE tool_call.name = "record_user_details" ->
                    LET out == record_user_details_on(state, args.email,
                                                      args.override)
                    IN  <<[name |-> tool_call.name,
                           override |-> args.override,
                           recorded |-> out.recorded,
                           npush |-> Len(out.sent)]>>
                        \o Resubmitted(out.state, keys, raw, Tail(tool_calls))
               [] tool_call.name = "record_unknown_question" ->
                    LET out == record_unknown_question_on(keys, raw,
                                                          args.question)
                    IN  <<[name |-> tool_call.name,
                           override |-> FALSE,
                           recorded |-> out.recorded,
                           npush |-> Len(out.sent)]>>
                        \o Resubmitted(state, out.keys, out.raw,
                                       Tail(tool_calls))
               [] OTHER -> Resubmitted(state, keys, raw, Tail(tool_calls))

ResubmittedNow ==
    Resubmitted(TurnSession, recorded_questions, recorded_questions_raw,
                KeptCalls)

\* the model call failed after at least one completed tool round
FailedAfterRounds == ModelFailed /\ Len(ToolResponses) >= 1

\* the tool messages of the turn that report a recording as made
OkResults ==
    {i \in DOMAIN frame.messages :
        /\ frame.messages[i].role = "tool"
        /\ "recorded" \in DOMAIN frame.messages[i].content.json
        /\ frame.messages[i].content.json.recorded = "ok"}

\* the tool messages of the turn that report an email as refused
RefusedResults ==
    {i \in DOMAIN frame.messages :
        /\ frame.messages[i].role = "tool"
        /\ "recorded" \in DOMAIN frame.messages[i].content.json
        /\ frame.messages[i].content.json.recorded = "suspicious"}

\* the recordings of the rounds are in place when the turn has returned, the
\* turn's notifications are theirs followed by one warning
RecordingsPersist ==
    /\ Len(TurnPushes) = Cardinality(OkResults) + 1
    /\ Len(TurnWarnings) = 1
    /\ TurnPushes[Len(TurnPushes)].kind = "warning"
    /\ \A k \in DOMAIN KeptCalls :
           /\ KeptCalls[k].name = "record_unknown_question" =>
                  normalize(KeptCalls[k].arguments.value.question)
                      \in recorded_questions
           /\ KeptCalls[k].name = "record_user_details" =>
                  /\ session_key \in DOMAIN session_states
                  /\ TurnSession.notification_sent
    /\ Len(recorded_questions_raw) >= Len(frame.before.raw)
    /\ Cardinality(recorded_questions) - Cardinality(frame.before.keys)
           = Cardinality({i \in OkResults :
                 "recorded_questions" \in DOMAIN frame.messages[i].content.json})

(***************************************************************************)
(* C35 as stated: when a model invocation fails after tool rounds, the     *)
(* recordings of those rounds persist, the turn adds exactly one warning,  *)
(* and the same tool calls issued again all get already_recorded.          *)
(***************************************************************************)
C35_ResubmitAlreadyRecorded ==
    FailedAfterRounds =>
        /\ RecordingsPersist
        /\ \A k \in DOMAIN ResubmittedNow :
               ResubmittedNow[k].recorded = "already_recorded"

(***************************************************************************)
(* C35: when a model invocation fails after tool rounds, the recordings of *)
(* those rounds persist, their notifications stay delivered and the turn   *)
(* adds exactly one warning.  The same tool calls issued again in the same *)
(* session deliver no notification: record_unknown_question gets           *)
(* already_recorded, record_user_details with override gets                *)
(* already_overridden, record_user_details without override gets           *)
(* already_recorded, corrected or suspicious, and already_recorded when it *)
(* was the only contact call of the turn and was not refused there.        *)
(***************************************************************************)
C35_NoRollback ==
    FailedAfterRounds =>
        /\ RecordingsPersist
        /\ \A k \in DOMAIN ResubmittedNow :
               LET again == ResubmittedNow[k]
               IN  /\ again.npush = 0
                   /\ again.name = "record_unknown_question"
                          => again.recorded = "already_recorded"
                   /\ (again.name = "record_user_details" /\ again.override)
                          => again.recorded = "already_overridden"
                   /\ (again.name = "record_user_details" /\ ~again.override)
                          => again.recorded \in {"already_recorded",
                                                 "corrected", "suspicious"}
                   /\ (/\ again.name = "record_user_details"
                       /\ ~again.override
                       /\ Cardinality({j \in DOMAIN ResubmittedNow :
                              ResubmittedNow[j].name = "record_user_details"}) = 1
                       /\ RefusedResults = {})
                          => again.recorded = "already_recorded"

\* a question and contact details were recorded in two rounds, then the
\* model call failed
C35_Witness ==
    /\ FailedAfterRounds
    /\ Len(ToolResponses) = 2
    /\ Cardinality(OkResults) = 2
    /\ Len(TurnPushes) = 3
    /\ \E k \in DOMAIN ResubmittedNow :
           ResubmittedNow[k].name = "record_user_details"
    /\ \E k \in DOMAIN ResubmittedNow :
           ResubmittedNow[k].name = "record_unknown_question"

\* a contact recording and an accepted override, then the model call failed
C35_WitnessOverride ==
    /\ FailedAfterRounds
    /\ \E k \in DOMAIN ResubmittedNow :
           ResubmittedNow[k].recorded = "already_overridden"
    /\ \E k \in DOMAIN ResubmittedNow :
           ResubmittedNow[k].recorded = "corrected"

====
